---- MODULE Spec2Model ----
(***************************************************************************)
(* Navallist state synchronisation: the checklist store (atomic upsert,    *)
(* get-or-create of trips, crew resolution), the tool bridge that applies  *)
(* batches of updates, and the unified-state read.                         *)
(*                                                                         *)
(* SQL text values and Go strings are sequences of one-character strings,  *)
(* so that LOWER, LIKE and HasPrefix are computed and not assumed.  NULL   *)
(* (a nil pointer in Go) is a value that is no such sequence.              *)
(***************************************************************************)
EXTENDS Naturals, Sequences, FiniteSets, TLC

VARIABLES
    users,      \* table users: rows [id, name]
    trips,      \* table trip: rows [id, adk_session_id, user_id, captain_name,
                \* boat_name, status, trip_type]
    trip_crew,  \* table trip_crew: rows [trip_id, user_id, display_name]
    items,      \* table checklist_item
    artifacts,  \* table artifact: rows [id, trip_id, checklist_item_id]
    nextTrip,   \* number of trip ids generated so far
    nextItem,   \* number of checklist_item ids generated so far
    nextArt,    \* number of artifact ids generated so far
    calls,      \* calls in flight: per caller, the statement it is about to run
    listener,   \* where ListenToDB is: "Disconnected" (at the top of its loop),
                \* "Connecting", "Connected" (issuing LISTEN), "Listening",
                \* "Backoff" (sleeping after a failure) or "Stopped" (returned)
    ctx,        \* the context of the listener: "Live" or "Cancelled"
    feed,       \* notifications queued on the listener's connection, oldest first
    client,     \* a client of the trip: [pending: a fetch of the unified state is
                \* scheduled, channels: the channels it has subscribed to,
                \* activeUsers: its presence map, as a set of [key, value],
                \* timers: the timeouts set and not yet run or cleared, each
                \* [id, left: ticks to go], pollTimeout: the id of the timeout
                \* set last (0: none), dirty: a notification or an edit came
                \* after the last re-fetch started, stamp: flips with each,
                \* polls: the calls of pollState that have not returned,
                \* reads: how many unified snapshots were read for it,
                \* inflight: the answers on their way to it, each [n: which
                \* read, unified], shown: the state map it shows, rendered:
                \* the read it shows (0: none)]
    hub,        \* the realtime node: [conns: the connections with their
                \* credentials, presence: who is present in which channel]
    history,    \* per audited (trip id, item name): the committed writes, in commit order
    last        \* the call that completed last, with its arguments and its result

vars == <<users, trips, trip_crew, items, artifacts, nextTrip, nextItem, nextArt,
          calls, listener, ctx, feed, client, hub, history, last>>

-----------------------------------------------------------------------------
(* Bounds of the model *)

MaxTrips == 2
MaxItems == 2
MaxArtifacts == 1
MaxFeed == 2
MaxHistory == 3
MaxPresent == 2
MaxTimers == 2
MaxPolls == 2
MaxReads == 2

-----------------------------------------------------------------------------
(* Text *)

NULL == <<"NULL">>
Empty == <<>>

Ann == <<"A", "n", "n">>
Anna == <<"A", "n", "n", "a">>
Bob == <<"B", "o", "b">>
AnnLower == <<"a", "n", "n">>
An == <<"a", "n">>
Zed == <<"Z", "e", "d">>
Underscore == <<"_">>
Westpoint == <<"W", "e", "s", "t", "p", "o", "i", "n", "t">>
LockerA == <<"L", "o", "c", "k", "e", "r", " ", "A">>
U1 == <<"u", "1">>
U2 == <<"u", "2">>
GuestPrefix == <<"g", "u", "e", "s", "t", "_">>

UpperCase == <<"A", "B", "C", "D", "E", "F", "G", "H", "I", "J", "K", "L", "M",
               "N", "O", "P", "Q", "R", "S", "T", "U", "V", "W", "X", "Y", "Z">>
LowerCase == <<"a", "b", "c", "d", "e", "f", "g", "h", "i", "j", "k", "l", "m",
               "n", "o", "p", "q", "r", "s", "t", "u", "v", "w", "x", "y", "z">>

\* The characters of the model in byte order (the order of ORDER BY name ASC
\* under the C collation).
ByteOrder == <<" ", "%", "0", "1">> \o UpperCase \o <<"_">> \o LowerCase

Code(c) == CHOOSE i \in 1..Len(ByteOrder) : ByteOrder[i] = c

LowerChar(c) ==
    IF \E i \in 1..Len(UpperCase) : UpperCase[i] = c
    THEN LowerCase[CHOOSE i \in 1..Len(UpperCase) : UpperCase[i] = c]
    ELSE c

\* SQL LOWER(s), and the folding of strings.EqualFold
Lower(s) == [i \in 1..Len(s) |-> LowerChar(s[i])]

EqualFold(a, b) == Lower(a) = Lower(b)

HasPrefix(s, p) == Len(s) >= Len(p) /\ SubSeq(s, 1, Len(p)) = p

\* a < b in byte order (a proper prefix sorts first)
RECURSIVE TextLess(_, _)
TextLess(a, b) ==
    IF b = <<>> THEN FALSE
    ELSE IF a = <<>> THEN TRUE
    ELSE IF a[1] # b[1] THEN Code(a[1]) < Code(b[1])
    ELSE TextLess(Tail(a), Tail(b))

\* SQL: s LIKE p, where % matches any run of characters and _ any one character
RECURSIVE Like(_, _)
Like(s, p) ==
    IF p = <<>> THEN s = <<>>
    ELSE IF p[1] = "%" THEN Like(s, Tail(p)) \/ (s # <<>> /\ Like(Tail(s), p))
    ELSE IF p[1] = "_" THEN s # <<>> /\ Like(Tail(s), Tail(p))
    ELSE s # <<>> /\ s[1] = p[1] /\ Like(Tail(s), Tail(p))

\* q occurs in s as a contiguous substring
Contains(s, q) ==
    \E i \in 1..(Len(s) + 1) :
        i + Len(q) - 1 <= Len(s) /\ SubSeq(s, i, i + Len(q) - 1) = q

-----------------------------------------------------------------------------
(* Keys: shortkey_generate() returns a fresh random key; the model hands out
   distinct keys in turn. *)

Digits == <<"0", "1", "2", "3", "4", "5", "6", "7", "8", "9">>

TripKey(n) == <<"t", Digits[n + 1]>>
ItemKey(n) == <<"i", Digits[n + 1]>>
ArtifactKey(n) == <<"a", Digits[n + 1]>>

S1 == <<"s", "1">>
Oil == <<"O", "i", "l">>
Marina == <<"M", "a", "r", "i", "n", "a">>

Callers == {"c1", "c2"}
Idle == [pc |-> "idle"]

NoCall == [op |-> "none"]

-----------------------------------------------------------------------------
(* The change feed: the triggers of trip and checklist_item call pg_notify for
   every row written.  A notification reaches only a connection that is
   listening; nothing is queued for a listener that is not connected. *)

Event(table, action, tripID) == [table |-> table, action |-> action, trip_id |-> tripID]

\* notify_changes(): the trip id is NEW.id for a trip row and NEW.trip_id for any
\* other row; NEW is null in a DELETE trigger.  newTripID is the id NEW carries.
NotifyChanges(table, action, newTripID) ==
    Event(table, action, IF action = "DELETE" THEN NULL ELSE newTripID)

Notify(queue, evs) ==
    IF listener = "Listening" THEN queue \o evs ELSE queue

FeedRoom(n) == listener = "Listening" => Len(feed) + n <= MaxFeed

\* The audit log of item writes (a history variable of the verification).
Record(log, key, w) ==
    IF key \in DOMAIN log THEN [log EXCEPT ![key] = Append(@, w)] ELSE log

HistoryRoom(key) == key \in DOMAIN history => Len(history[key]) < MaxHistory

-----------------------------------------------------------------------------
(* checklist_item: INSERT ... ON CONFLICT (trip_id, name) DO UPDATE *)

TripExists(tripID) == \E t \in trips : t.id = tripID

\* A variant without the unique constraint: no insert ever conflicts
ConflictRowsAlwaysInsert(rows, ex) == {}

\* the rows the unique constraint unique_trip_item_name makes the insert conflict with
ConflictRows(rows, ex) ==
    {r \in rows : r.trip_id = ex.trip_id /\ r.name = ex.name}

\* A variant that records the acting user whatever isChecked is
UpdateItemExcludedAlways(tripID, itemName, isChecked, location, userID, completedByName, assignedToUserID, assignedToName) ==
    [trip_id |-> tripID, name |-> itemName, is_checked |-> isChecked,
     location_text |-> location,
     completed_by_user_id |-> userID,
     completed_by_name |-> IF completedByName # Empty THEN completedByName ELSE NULL,
     assigned_to_user_id |-> assignedToUserID,
     assigned_to_name |-> assignedToName]

\* UpdateItem: the row proposed for insertion (EXCLUDED)
UpdateItemExcluded(tripID, itemName, isChecked, location, userID, completedByName, assignedToUserID, assignedToName) ==
    [trip_id |-> tripID, name |-> itemName, is_checked |-> isChecked,
     location_text |-> location,
     completed_by_user_id |-> IF isChecked THEN userID ELSE NULL,
     completed_by_name |->
         IF isChecked /\ completedByName # Empty THEN completedByName ELSE NULL,
     assigned_to_user_id |-> assignedToUserID,
     assigned_to_name |-> assignedToName]

Coalesce(a, b) == IF a # NULL THEN a ELSE b

\* Variants of the SET clause: assigned_to_* = EXCLUDED.assigned_to_*,
\* location_text = EXCLUDED.location_text, is_checked = NOT is_checked
UpdateItemSetAssignment(old, ex) ==
    [old EXCEPT !.is_checked = ex.is_checked,
                !.location_text =
                    IF ex.location_text # NULL /\ ex.location_text # Empty
                    THEN ex.location_text ELSE old.location_text,
                !.completed_by_user_id = ex.completed_by_user_id,
                !.completed_by_name = ex.completed_by_name,
                !.assigned_to_user_id = ex.assigned_to_user_id,
                !.assigned_to_name = ex.assigned_to_name]
UpdateItemSetLocation(old, ex) ==
    [old EXCEPT !.is_checked = ex.is_checked,
                !.location_text = ex.location_text,
                !.completed_by_user_id = ex.completed_by_user_id,
                !.completed_by_name = ex.completed_by_name,
                !.assigned_to_user_id =
                    Coalesce(ex.assigned_to_user_id, old.assigned_to_user_id),
                !.assigned_to_name =
                    Coalesce(ex.assigned_to_name, old.assigned_to_name)]
UpdateItemSetToggle(old, ex) ==
    [old EXCEPT !.is_checked = ~old.is_checked,
                !.location_text =
                    IF ex.location_text # NULL /\ ex.location_text # Empty
                    THEN ex.location_text ELSE old.location_text,
                !.completed_by_user_id = ex.completed_by_user_id,
                !.completed_by_name = ex.completed_by_name,
                !.assigned_to_user_id =
                    Coalesce(ex.assigned_to_user_id, old.assigned_to_user_id),
                !.assigned_to_name =
                    Coalesce(ex.assigned_to_name, old.assigned_to_name)]

\* UpdateItem: DO UPDATE SET ...
UpdateItemSet(old, ex) ==
    [old EXCEPT !.is_checked = ex.is_checked,
                !.location_text =
                    IF ex.location_text # NULL /\ ex.location_text # Empty
                    THEN ex.location_text ELSE old.location_text,
                !.completed_by_user_id = ex.completed_by_user_id,
                !.completed_by_name = ex.completed_by_name,
                !.assigned_to_user_id =
                    Coalesce(ex.assigned_to_user_id, old.assigned_to_user_id),
                !.assigned_to_name =
                    Coalesce(ex.assigned_to_name, old.assigned_to_name)]

\* AddItemPhoto: the row proposed for insertion; the columns it does not name
\* take their defaults (NULL)
AddItemPhotoExcluded(tripID, itemName) ==
    [trip_id |-> tripID, name |-> itemName, is_checked |-> TRUE,
     location_text |-> NULL,
     completed_by_user_id |-> NULL, completed_by_name |-> NULL,
     assigned_to_user_id |-> NULL, assigned_to_name |-> NULL]

\* AddItemPhoto: DO UPDATE SET is_checked = EXCLUDED.is_checked
AddItemPhotoSet(old, ex) == [old EXCEPT !.is_checked = ex.is_checked]

WithId(ex, id) ==
    [id |-> id, trip_id |-> ex.trip_id, name |-> ex.name,
     is_checked |-> ex.is_checked, location_text |-> ex.location_text,
     completed_by_user_id |-> ex.completed_by_user_id,
     completed_by_name |-> ex.completed_by_name,
     assigned_to_user_id |-> ex.assigned_to_user_id,
     assigned_to_name |-> ex.assigned_to_name]

\* The row the statement returns (RETURNING ...): the updated row on a conflict,
\* the inserted row otherwise.  UseUpdateItem tells which SET clause applies.
Returned(rows, ex, UseUpdateItem, newId) ==
    LET hit == ConflictRows(rows, ex)
    IN IF hit = {} THEN WithId(ex, newId)
       ELSE LET old == CHOOSE r \in hit : TRUE
            IN IF UseUpdateItem THEN UpdateItemSet(old, ex) ELSE AddItemPhotoSet(old, ex)

Upserted(rows, ex, UseUpdateItem, newId) ==
    (rows \ ConflictRows(rows, ex)) \cup {Returned(rows, ex, UseUpdateItem, newId)}

Inserts(rows, ex) == ConflictRows(rows, ex) = {}

-----------------------------------------------------------------------------
(* users *)

\* GetUser: SELECT * FROM users WHERE id = $1; the name, or NULL without a row
GetUserName(id) ==
    IF \E u \in users : u.id = id
    THEN (CHOOSE u \in users : u.id = id).name
    ELSE NULL

\* FindUserByName: the users whose name equals the argument ignoring case
FindUserByName(name) ==
    {u \in users : u.name # NULL /\ Lower(u.name) = Lower(name)}

-----------------------------------------------------------------------------
(* trip *)

\* WHERE id = $1 OR adk_session_id = $1
TripsMatching(x) == {t \in trips : t.id = x \/ t.adk_session_id = x}

\* WHERE adk_session_id = $1
TripsOfSession(sid) == {t \in trips : t.adk_session_id = sid}

Others == <<users, artifacts, nextArt, client, history>>

\* GetOrCreateTrip, first statement: SELECT * FROM trip WHERE adk_session_id = $1
\* LIMIT 1.  The call returns the trip found, after claiming it when it has no
\* owner; it goes on to the INSERT when there is none.
GetOrCreateTripSelect(c, sid, userID, captainName) ==
    /\ calls[c] = Idle
    /\ LET found == TripsOfSession(sid)
       IN IF found # {}
          THEN \E t \in found :
                 IF t.user_id = NULL /\ userID # Empty
                 THEN /\ calls' = [calls EXCEPT ![c] =
                            [pc |-> "claim", sid |-> sid, trip |-> t.id,
                             userID |-> userID, captainName |-> captainName]]
                      /\ UNCHANGED last
                 ELSE /\ calls' = [calls EXCEPT ![c] =
                            [pc |-> "crew", sid |-> sid, trip |-> t.id,
                             userID |-> userID, captainName |-> captainName]]
                      /\ last' = [op |-> "GetOrCreateTrip", caller |-> c,
                                  arg |-> [sid |-> sid], res |-> [id |-> t.id]]
          ELSE /\ calls' = [calls EXCEPT ![c] =
                     [pc |-> "insert", sid |-> sid, trip |-> NULL,
                      userID |-> userID, captainName |-> captainName]]
               /\ UNCHANGED last
    /\ UNCHANGED <<trips, trip_crew, items, nextTrip, nextItem, listener, feed, ctx, hub>>
    /\ UNCHANGED Others

\* GetOrCreateTrip, found branch: UPDATE trip SET user_id = $1 WHERE id = $2
GetOrCreateTripClaim(c) ==
    /\ calls[c].pc = "claim"
    /\ LET hit == {t \in trips : t.id = calls[c].trip}
       IN /\ FeedRoom(Cardinality(hit))
          /\ trips' = (trips \ hit)
                \cup {[t EXCEPT !.user_id = calls[c].userID] : t \in hit}
          /\ feed' = Notify(feed,
                IF hit = {} THEN <<>> ELSE <<NotifyChanges("trip", "UPDATE", calls[c].trip)>>)
    /\ calls' = [calls EXCEPT ![c].pc = "crew"]
    /\ last' = [op |-> "GetOrCreateTrip", caller |-> c,
                arg |-> [sid |-> calls[c].sid], res |-> [id |-> calls[c].trip]]
    /\ UNCHANGED <<trip_crew, items, nextTrip, nextItem, listener, ctx, hub>>
    /\ UNCHANGED Others

\* GetOrCreateTrip, not-found branch: INSERT INTO trip ... RETURNING *, with
\* status 'Draft' and the default trip type; boat_name is not set
GetOrCreateTripInsert(c) ==
    /\ calls[c].pc = "insert"
    /\ nextTrip < MaxTrips
    /\ FeedRoom(1)
    /\ LET id == TripKey(nextTrip + 1)
       IN /\ trips' = trips \cup
                {[id |-> id, adk_session_id |-> calls[c].sid,
                  user_id |-> IF calls[c].userID # Empty THEN calls[c].userID ELSE NULL,
                  captain_name |-> calls[c].captainName,
                  boat_name |-> NULL, status |-> "Draft",
                  trip_type |-> "Departing"]}
          /\ feed' = Notify(feed, <<NotifyChanges("trip", "INSERT", id)>>)
          /\ calls' = [calls EXCEPT ![c].pc = "crew", ![c].trip = id]
          /\ last' = [op |-> "GetOrCreateTrip", caller |-> c,
                      arg |-> [sid |-> calls[c].sid], res |-> [id |-> id]]
    /\ nextTrip' = nextTrip + 1
    /\ UNCHANGED <<trip_crew, items, nextItem, listener, ctx, hub>>
    /\ UNCHANGED Others

\* AddTripCrew: INSERT INTO trip_crew ... ON CONFLICT (trip_id, user_id) DO UPDATE
\* SET display_name; it fails (foreign key) when the trip is gone
AddTripCrew(rows, tripID, userID, displayName) ==
    IF ~TripExists(tripID) THEN rows
    ELSE {r \in rows : ~(r.trip_id = tripID /\ r.user_id = userID)}
            \cup {[trip_id |-> tripID, user_id |-> userID, display_name |-> displayName]}

\* CreateTrip, after GetOrCreateTrip has returned: record the caller in trip_crew
CreateTripAddCrew(c) ==
    /\ calls[c].pc = "crew"
    /\ LET userID == calls[c].userID
           stored == IF userID # Empty THEN GetUserName(userID) ELSE NULL
           displayName ==
               IF calls[c].captainName = Empty /\ stored # NULL
               THEN stored ELSE calls[c].captainName
           actualUserID ==
               IF userID = Empty /\ displayName # Empty
               THEN GuestPrefix \o displayName ELSE userID
       IN trip_crew' =
            IF actualUserID # Empty
            THEN AddTripCrew(trip_crew, calls[c].trip, actualUserID, displayName)
            ELSE trip_crew
    /\ calls' = [calls EXCEPT ![c] = Idle]
    /\ UNCHANGED <<trips, items, nextTrip, nextItem, listener, feed, last, ctx, hub>>
    /\ UNCHANGED Others

\* DeleteTrip: DELETE FROM trip WHERE id = $1 OR adk_session_id = $1; the foreign
\* keys delete the trip's items, artifacts and crew rows and clear
\* artifact.checklist_item_id of a deleted item
\* A variant in which checklist_item has no ON DELETE CASCADE
DeleteTripNoCascade(x) ==
    LET gone == {t.id : t \in TripsMatching(x)}
        goneItems == {r.id : r \in {i \in items : i.trip_id \in gone}}
    IN /\ FeedRoom(Cardinality(gone) + Cardinality(goneItems))
       /\ trips' = {t \in trips : t.id \notin gone}
       /\ items' = items
       /\ trip_crew' = {r \in trip_crew : r.trip_id \notin gone}
       /\ artifacts' =
            {[a EXCEPT !.checklist_item_id =
                  IF @ \in goneItems THEN NULL ELSE @] :
                a \in {b \in artifacts : b.trip_id \notin gone}}
       /\ history' = [k \in DOMAIN history |->
                        IF k[1] \in gone THEN <<>> ELSE history[k]]
       /\ feed' = Notify(feed,
            [i \in 1..Cardinality(goneItems) |->
                NotifyChanges("checklist_item", "DELETE", NULL)]
            \o [i \in 1..Cardinality(gone) |-> NotifyChanges("trip", "DELETE", NULL)])
       /\ last' = [op |-> "DeleteTrip", caller |-> "none", arg |-> [id |-> x],
                   res |-> [err |-> gone = {}]]
       /\ UNCHANGED <<users, nextTrip, nextItem, nextArt, calls, listener, client, ctx, hub>>

DeleteTrip(x) ==
    LET gone == {t.id : t \in TripsMatching(x)}
        goneItems == {r.id : r \in {i \in items : i.trip_id \in gone}}
    IN /\ FeedRoom(Cardinality(gone) + Cardinality(goneItems))
       /\ trips' = {t \in trips : t.id \notin gone}
       /\ items' = {r \in items : r.trip_id \notin gone}
       /\ trip_crew' = {r \in trip_crew : r.trip_id \notin gone}
       /\ artifacts' =
            {[a EXCEPT !.checklist_item_id =
                  IF @ \in goneItems THEN NULL ELSE @] :
                a \in {b \in artifacts : b.trip_id \notin gone}}
       /\ history' = [k \in DOMAIN history |->
                        IF k[1] \in gone THEN <<>> ELSE history[k]]
       /\ feed' = Notify(feed,
            [i \in 1..Cardinality(goneItems) |->
                NotifyChanges("checklist_item", "DELETE", NULL)]
            \o [i \in 1..Cardinality(gone) |-> NotifyChanges("trip", "DELETE", NULL)])
       /\ last' = [op |-> "DeleteTrip", caller |-> "none", arg |-> [id |-> x],
                   res |-> [err |-> gone = {}]]
       /\ UNCHANGED <<users, nextTrip, nextItem, nextArt, calls, listener, client, ctx, hub>>

-----------------------------------------------------------------------------
(* Crew resolution *)

\* The CTE crew_names of FindCrewMember for the trip realID: the UNION of the
\* captain's name, the display names of trip_crew, the names of the users who
\* are assigned to or completed an item, the assigned_to_name and
\* completed_by_name of the items, and the name of the trip's owner.
CrewNames(realID) ==
    LET ofTrip == {r \in items : r.trip_id = realID}
    IN  {t.captain_name : t \in {x \in trips : x.id = realID /\ x.captain_name # NULL}}
        \cup {r.display_name :
                r \in {x \in trip_crew : x.trip_id = realID /\ x.display_name # NULL}}
        \cup {u.name : u \in {x \in users :
                x.name # NULL /\ \E r \in ofTrip : r.assigned_to_user_id = x.id}}
        \cup {u.name : u \in {x \in users :
                x.name # NULL /\ \E r \in ofTrip : r.completed_by_user_id = x.id}}
        \cup {r.assigned_to_name : r \in {x \in ofTrip : x.assigned_to_name # NULL}}
        \cup {r.completed_by_name : r \in {x \in ofTrip : x.completed_by_name # NULL}}
        \cup {u.name : u \in {x \in users :
                x.name # NULL /\ \E t \in trips : t.id = realID /\ t.user_id = x.id}}

\* WHERE name <> '' AND (LOWER(name) = LOWER($2)
\*                       OR LOWER(name) LIKE '%' || LOWER($2) || '%')
CrewMatching(names, query) ==
    {n \in names :
        /\ n # Empty
        /\ \/ Lower(n) = Lower(query)
           \/ Like(Lower(n), <<"%">> \o Lower(query) \o <<"%">>)}

\* ORDER BY CASE WHEN LOWER(name) = LOWER($2) THEN 0 ELSE 1 END ASC, name ASC
CrewBefore(n, m, query) ==
    LET rank(x) == IF Lower(x) = Lower(query) THEN 0 ELSE 1
    IN rank(n) < rank(m) \/ (rank(n) = rank(m) /\ TextLess(n, m))

\* FindCrewMember once the trip id is known: LIMIT 1 of the ordered matches,
\* "" (sql.ErrNoRows) without a match
FindCrewMemberIn(names, query) ==
    LET hit == CrewMatching(names, query)
    IN IF hit = {} THEN Empty
       ELSE CHOOSE n \in hit : \A m \in hit \ {n} : CrewBefore(n, m, query)

\* SQLStore.FindCrewMember: SELECT id FROM trip WHERE id = $1 OR adk_session_id
\* = $1 LIMIT 1, then the query over crew_names; a read that changes no table
FindCrewMember(tripID, query) ==
    /\ IF TripsMatching(tripID) = {}
       THEN last' = [op |-> "FindCrewMember", caller |-> "none",
                     arg |-> [trip_id |-> tripID, query |-> query],
                     res |-> [err |-> TRUE, name |-> Empty, crew |-> {}]]
       ELSE \E t \in TripsMatching(tripID) :
               last' = [op |-> "FindCrewMember", caller |-> "none",
                        arg |-> [trip_id |-> tripID, query |-> query],
                        res |-> [err |-> FALSE,
                                 name |-> FindCrewMemberIn(CrewNames(t.id), query),
                                 crew |-> CrewNames(t.id)]]
    /\ UNCHANGED <<users, trips, trip_crew, items, artifacts, nextTrip, nextItem,
                   nextArt, calls, listener, feed, client, history, ctx, hub>>

-----------------------------------------------------------------------------
(* checklist_item writes *)

ItemKeyOf(tripID, itemName) == <<tripID, itemName>>

\* What a committed write contributes to the audit log
Written(kind, ex) == [kind |-> kind, ex |-> ex]

\* SQLStore.UpdateItem on the table rows: one INSERT ... ON CONFLICT statement.
\* The foreign key on trip_id makes it fail, changing nothing, when the trip does
\* not exist.
\* Errors are chains: fmt.Errorf with %w puts a message before the error it
\* wraps, and errors.Is looks for a target along the chain
ErrNotFound == "not found"
ForeignKeyViolation == "23503"
NoError == <<>>
Errorf(msg, err) == <<msg>> \o err
Is(err, target) == \E i \in 1..Len(err) : err[i] = target

StoreUpdateItem(rows, tripID, itemName, isChecked, location, userID, completedByName, assignedToUserID, assignedToName) ==
    LET ex == UpdateItemExcluded(tripID, itemName, isChecked, location, userID,
                                 completedByName, assignedToUserID, assignedToName)
        newId == ItemKey(nextItem + 1)
    IN IF ~TripExists(tripID)
       THEN [err |-> TRUE, rows |-> rows, used |-> 0, events |-> <<>>,
             item |-> NULL, ex |-> ex,
             error |-> Errorf("failed to upsert item", <<ForeignKeyViolation>>)]
       ELSE [err |-> FALSE, error |-> NoError,
             rows |-> Upserted(rows, ex, TRUE, newId),
             used |-> IF Inserts(rows, ex) THEN 1 ELSE 0,
             events |-> <<NotifyChanges("checklist_item",
                            IF Inserts(rows, ex) THEN "INSERT" ELSE "UPDATE", tripID)>>,
             item |-> Returned(rows, ex, TRUE, newId), ex |-> ex]

\* Room for one more item id, notification and log entry
WriteRoom(tripID, itemName) ==
    /\ nextItem < MaxItems \/ ConflictRows(items, [trip_id |-> tripID, name |-> itemName]) # {}
    /\ FeedRoom(1)
    /\ HistoryRoom(ItemKeyOf(tripID, itemName))

\* TripsHandler.UpdateItem: the direct edit endpoint
UpdateItem(tripID, itemName, isChecked, location, userID, completedByName, assignedToUserID, assignedToName) ==
    LET w == StoreUpdateItem(items, tripID, itemName, isChecked, location, userID,
                             completedByName, assignedToUserID, assignedToName)
    IN /\ WriteRoom(tripID, itemName)
       /\ items' = w.rows
       /\ nextItem' = nextItem + w.used
       /\ feed' = Notify(feed, w.events)
       /\ history' = IF w.err THEN history
                     ELSE Record(history, ItemKeyOf(tripID, itemName),
                                 Written("update", w.ex))
       /\ last' = [op |-> "UpdateItem", caller |-> "none",
                   arg |-> [trip_id |-> tripID, name |-> itemName,
                            is_checked |-> isChecked, location |-> location,
                            user_id |-> userID, completed_by_name |-> completedByName,
                            assigned_to_user_id |-> assignedToUserID,
                            assigned_to_name |-> assignedToName],
                   res |-> [err |-> w.err, item |-> w.item, error |-> w.error]]
       /\ UNCHANGED <<users, trips, trip_crew, artifacts, nextTrip, nextArt, calls,
                      listener, client, ctx, hub>>

\* UploadItemPhoto, first statement: CreateArtifact (INSERT INTO artifact), which
\* fails (foreign key) when the trip does not exist
UploadItemPhotoCreate(c, tripID, itemName) ==
    /\ calls[c] = Idle
    /\ nextArt < MaxArtifacts
    /\ IF TripExists(tripID)
       THEN /\ artifacts' = artifacts \cup
                  {[id |-> ArtifactKey(nextArt + 1), trip_id |-> tripID,
                    checklist_item_id |-> NULL]}
            /\ nextArt' = nextArt + 1
            /\ calls' = [calls EXCEPT ![c] =
                  [pc |-> "photo", trip |-> tripID, name |-> itemName,
                   artifact |-> ArtifactKey(nextArt + 1), item |-> NULL]]
       ELSE UNCHANGED <<artifacts, nextArt, calls>>
    /\ UNCHANGED <<users, trips, trip_crew, items, nextTrip, nextItem, listener, feed,
                   client, history, last, ctx, hub>>

\* AddItemPhoto, first statement: make sure the item exists (INSERT ... ON CONFLICT)
AddItemPhotoUpsert(c) ==
    /\ calls[c].pc = "photo"
    /\ LET tripID == calls[c].trip
           itemName == calls[c].name
           ex == AddItemPhotoExcluded(tripID, itemName)
           newId == ItemKey(nextItem + 1)
       IN /\ WriteRoom(tripID, itemName)
          /\ IF ~TripExists(tripID)
             THEN /\ calls' = [calls EXCEPT ![c] = Idle]
                  /\ last' = [op |-> "AddItemPhoto", caller |-> c,
                              arg |-> [trip_id |-> tripID, name |-> itemName,
                                       artifact |-> calls[c].artifact],
                              res |-> [err |-> TRUE, id |-> NULL]]
                  /\ UNCHANGED <<items, nextItem, feed, history>>
             ELSE /\ items' = Upserted(items, ex, FALSE, newId)
                  /\ nextItem' = nextItem + (IF Inserts(items, ex) THEN 1 ELSE 0)
                  /\ feed' = Notify(feed, <<NotifyChanges("checklist_item",
                        IF Inserts(items, ex) THEN "INSERT" ELSE "UPDATE", tripID)>>)
                  /\ history' = Record(history, ItemKeyOf(tripID, itemName),
                                       Written("photo", ex))
                  /\ calls' = [calls EXCEPT ![c].pc = "link",
                                  ![c].item = Returned(items, ex, FALSE, newId).id]
                  /\ UNCHANGED last
    /\ UNCHANGED <<users, trips, trip_crew, artifacts, nextTrip, nextArt, listener,
                   client, ctx, hub>>

\* A variant that returns without the UPDATE of the artifact
AddItemPhotoLinkSkip(c) ==
    /\ calls[c].pc = "link"
    /\ LET itemID == calls[c].item
           hit == {a \in artifacts : a.id = calls[c].artifact}
           broken == hit # {} /\ ~(\E r \in items : r.id = itemID)
       IN /\ artifacts' =
                artifacts
          /\ last' = [op |-> "AddItemPhoto", caller |-> c,
                      arg |-> [trip_id |-> calls[c].trip, name |-> calls[c].name,
                               artifact |-> calls[c].artifact],
                      res |-> [err |-> broken, id |-> calls[c].item]]
    /\ calls' = [calls EXCEPT ![c] = Idle]
    /\ UNCHANGED <<users, trips, trip_crew, items, nextTrip, nextItem, nextArt,
                   listener, feed, client, history, ctx, hub>>

\* AddItemPhoto, second statement: UPDATE artifact SET checklist_item_id = $1
\* WHERE id = $2, which fails (foreign key) when the item is gone
AddItemPhotoLink(c) ==
    /\ calls[c].pc = "link"
    /\ LET itemID == calls[c].item
           hit == {a \in artifacts : a.id = calls[c].artifact}
           broken == hit # {} /\ ~(\E r \in items : r.id = itemID)
       IN /\ artifacts' =
                IF broken THEN artifacts
                ELSE (artifacts \ hit)
                        \cup {[a EXCEPT !.checklist_item_id = itemID] : a \in hit}
          /\ last' = [op |-> "AddItemPhoto", caller |-> c,
                      arg |-> [trip_id |-> calls[c].trip, name |-> calls[c].name,
                               artifact |-> calls[c].artifact],
                      res |-> [err |-> broken, id |-> calls[c].item]]
    /\ calls' = [calls EXCEPT ![c] = Idle]
    /\ UNCHANGED <<users, trips, trip_crew, items, nextTrip, nextItem, nextArt,
                   listener, feed, client, history, ctx, hub>>

-----------------------------------------------------------------------------
(* The agent's tool: UpdateItems applies a batch of updates, one
   updateItemInternal call after the other.  Each call resolves the trip of
   the session, resolves the assignee, and writes. *)

\* One update of a batch (UpdateChecklistArgs)
Update(itemName, isChecked, location, assignedToName) ==
    [item_name |-> itemName, is_checked |-> isChecked, location |-> location,
     assigned_to_name |-> assignedToName]

\* UpdateItemWithAssignment: the name of the calling user, "" for a guest or a
\* user without a row or a name
CurrentUserName(currentUserID) ==
    IF ~HasPrefix(currentUserID, GuestPrefix) /\ GetUserName(currentUserID) # NULL
    THEN GetUserName(currentUserID) ELSE Empty

\* A variant that drops a name it cannot resolve
ResolveAssignmentDrop(names, currentUserID, assignedToName) ==
    IF assignedToName # Empty /\ FindCrewMemberIn(names, assignedToName) # Empty
    THEN {[toUserID |-> NULL, toName |-> FindCrewMemberIn(names, assignedToName),
           matched |-> TRUE]}
    ELSE {[toUserID |-> NULL, toName |-> NULL, matched |-> assignedToName = Empty]}

\* UpdateItemWithAssignment, before the write: the assignee the write will carry.
\* names is what FindCrewMember sees, or {} when its trip lookup fails (the error
\* is dropped and the match is "").
ResolveAssignment(names, currentUserID, assignedToName) ==
    LET found == FindCrewMemberIn(names, assignedToName)
        currentUserName == CurrentUserName(currentUserID)
        match == IF found = Empty /\ currentUserName # Empty
                    /\ EqualFold(assignedToName, currentUserName)
                 THEN currentUserName ELSE found
        regUsers == FindUserByName(match)
    IN IF assignedToName = Empty
       THEN {[toUserID |-> NULL, toName |-> NULL, matched |-> TRUE]}
       ELSE IF match # Empty
       THEN IF regUsers # {}
            THEN {[toUserID |-> u.id, toName |-> match, matched |-> TRUE] :
                    u \in regUsers}
            ELSE {[toUserID |->
                       IF EqualFold(match, currentUserName)
                          /\ ~HasPrefix(currentUserID, GuestPrefix)
                       THEN currentUserID ELSE NULL,
                   toName |-> match, matched |-> TRUE]}
       ELSE {[toUserID |-> NULL, toName |-> assignedToName, matched |-> FALSE]}

\* UpdateItems is called with a batch of updates for the session sid by userID
UpdateItemsStart(c, sid, userID, updates) ==
    /\ calls[c] = Idle
    /\ calls' = [calls EXCEPT ![c] =
          [pc |-> IF updates = <<>> THEN "summary" ELSE "resolve",
           sid |-> sid, userID |-> userID, updates |-> updates, batch |-> updates,
           trip |-> NULL, to |-> NULL, successes |-> <<>>, errors |-> <<>>,
           warnings |-> <<>>]]
    /\ UNCHANGED <<users, trips, trip_crew, items, artifacts, nextTrip, nextItem,
                   nextArt, listener, feed, client, history, last, ctx, hub>>

\* A variant of the loop that gives up at the first update that fails
AdvanceAbort(call, ok, warned) ==
    [call EXCEPT !.pc = IF Len(call.batch) > 1 /\ ok THEN "resolve" ELSE "summary",
                 !.batch = Tail(call.batch),
                 !.trip = NULL, !.to = NULL,
                 !.successes = IF ok THEN Append(@, Head(call.batch).item_name) ELSE @,
                 !.errors = IF ok THEN @ ELSE Append(@, Head(call.batch).item_name),
                 !.warnings = IF warned THEN Append(@, Head(call.batch).item_name) ELSE @]

\* The loop of UpdateItems goes on to the next update, or to the summary
Advance(call, ok, warned) ==
    [call EXCEPT !.pc = IF Len(call.batch) > 1 THEN "resolve" ELSE "summary",
                 !.batch = Tail(call.batch),
                 !.trip = NULL, !.to = NULL,
                 !.successes = IF ok THEN Append(@, Head(call.batch).item_name) ELSE @,
                 !.errors = IF ok THEN @ ELSE Append(@, Head(call.batch).item_name),
                 !.warnings = IF warned THEN Append(@, Head(call.batch).item_name) ELSE @]

ToolArg(call, tripID) ==
    [sid |-> call.sid, trip_id |-> tripID, user_id |-> call.userID,
     name |-> Head(call.batch).item_name,
     is_checked |-> Head(call.batch).is_checked,
     location |-> Head(call.batch).location,
     assigned_to_name |-> Head(call.batch).assigned_to_name]

\* updateItemInternal: resolveTripID (SELECT id FROM trip WHERE adk_session_id =
\* $1 LIMIT 1); without a trip the update is counted as failed
ToolResolveTrip(c) ==
    /\ calls[c].pc = "resolve"
    /\ LET found == TripsOfSession(calls[c].sid)
       IN IF found = {}
          THEN /\ calls' = [calls EXCEPT ![c] = Advance(calls[c], FALSE, FALSE)]
               /\ last' = [op |-> "updateItemInternal", caller |-> c,
                           arg |-> ToolArg(calls[c], NULL),
                           res |-> [err |-> TRUE, status |-> "error",
                                    matched |-> FALSE, item |-> NULL]]
          ELSE /\ \E t \in found :
                    calls' = [calls EXCEPT ![c].pc = "assign", ![c].trip = t.id]
               /\ UNCHANGED last
    /\ UNCHANGED <<users, trips, trip_crew, items, artifacts, nextTrip, nextItem,
                   nextArt, listener, feed, client, history, ctx, hub>>

\* UpdateItemWithAssignment: FindCrewMember, GetUser and FindUserByName
ToolAssign(c) ==
    /\ calls[c].pc = "assign"
    /\ LET seen == IF TripsMatching(calls[c].trip) = {} THEN {{}}
                   ELSE {CrewNames(t.id) : t \in TripsMatching(calls[c].trip)}
       IN \E names \in seen :
            \E to \in ResolveAssignment(names, calls[c].userID,
                                        Head(calls[c].batch).assigned_to_name) :
                calls' = [calls EXCEPT ![c].pc = "write",
                             ![c].to =
                                [toUserID |-> to.toUserID, toName |-> to.toName,
                                 matched |-> to.matched,
                                 resolved |-> FindCrewMemberIn(names,
                                    Head(calls[c].batch).assigned_to_name)]]
    /\ UNCHANGED <<users, trips, trip_crew, items, artifacts, nextTrip, nextItem,
                   nextArt, listener, feed, client, history, last, ctx, hub>>

\* UpdateItemWithAssignment: the UpdateItem it ends with, and the status
\* updateItemInternal gives the update
ToolWrite(c) ==
    /\ calls[c].pc = "write"
    /\ LET call == calls[c]
           u == Head(call.batch)
           w == StoreUpdateItem(items, call.trip, u.item_name, u.is_checked,
                    u.location,
                    IF call.userID # Empty THEN call.userID ELSE NULL,
                    call.userID, call.to.toUserID, call.to.toName)
           warned == ~w.err /\ w.item.assigned_to_name # NULL /\ ~call.to.matched
       IN /\ WriteRoom(call.trip, u.item_name)
          /\ items' = w.rows
          /\ nextItem' = nextItem + w.used
          /\ feed' = Notify(feed, w.events)
          /\ history' = IF w.err THEN history
                        ELSE Record(history, ItemKeyOf(call.trip, u.item_name),
                                    Written("batch", w.ex))
          /\ calls' = [calls EXCEPT ![c] = Advance(call, ~w.err, warned)]
          /\ last' = [op |-> "updateItemInternal", caller |-> c,
                      arg |-> ToolArg(call, call.trip),
                      res |-> [err |-> w.err,
                               status |-> IF w.err THEN "error"
                                          ELSE IF warned THEN "warning"
                                          ELSE "success",
                               matched |-> call.to.matched,
                               resolved |-> call.to.resolved,
                               item |-> w.item]]
    /\ UNCHANGED <<users, trips, trip_crew, artifacts, nextTrip, nextArt, listener,
                   client, ctx, hub>>

\* A variant that looks at the warnings before the errors
BatchStatusWarningFirst(errors, warnings) ==
    IF Len(warnings) > 0 THEN "warning"
    ELSE IF Len(errors) > 0 THEN "partial_success"
    ELSE "success"

\* UpdateItems: "success", "partial_success" once an update failed, "warning" when
\* there are warnings and the status is still "success"
BatchStatus(errors, warnings) ==
    IF Len(errors) > 0 THEN "partial_success"
    ELSE IF Len(warnings) > 0 THEN "warning"
    ELSE "success"

\* UpdateItems: the result of the batch, never an error
UpdateItemsReturn(c) ==
    /\ calls[c].pc = "summary"
    /\ last' = [op |-> "UpdateItems", caller |-> c,
                arg |-> [sid |-> calls[c].sid, updates |-> calls[c].updates],
                res |-> [err |-> FALSE,
                         status |-> BatchStatus(calls[c].errors, calls[c].warnings),
                         successes |-> calls[c].successes,
                         errors |-> calls[c].errors,
                         warnings |-> calls[c].warnings]]
    /\ calls' = [calls EXCEPT ![c] = Idle]
    /\ UNCHANGED <<users, trips, trip_crew, items, artifacts, nextTrip, nextItem,
                   nextArt, listener, feed, client, history, ctx, hub>>


\* A variant of the UPDATE without COALESCE: a field not supplied is set to NULL
UpdateTripMetadataSetOverwrite(t, boatName, captainName) ==
    [t EXCEPT !.boat_name = boatName, !.captain_name = captainName]

\* UpdateTripMetadata: SET boat_name = COALESCE($1, boat_name), captain_name =
\* COALESCE($2, captain_name)
UpdateTripMetadataSet(t, boatName, captainName) ==
    [t EXCEPT !.boat_name = Coalesce(boatName, t.boat_name),
              !.captain_name = Coalesce(captainName, t.captain_name)]

\* what UpdateMetadata was called with
MetaArg(call) ==
    [sid |-> call.sid, boat_name |-> call.boatName, captain_name |-> call.captainName]

\* UpdateMetadata and the first statement of UpdateTripMetadata: SELECT * FROM trip
\* WHERE adk_session_id = $1 LIMIT 1; without a trip the tool returns an error
UpdateMetadataSelect(c, sid, boatName, captainName) ==
    /\ calls[c] = Idle
    /\ LET found == TripsOfSession(sid)
           call == [pc |-> "metadata", sid |-> sid, boatName |-> boatName,
                    captainName |-> captainName, trip |-> NULL]
       IN IF found = {}
          THEN /\ last' = [op |-> "UpdateMetadata", caller |-> c, arg |-> MetaArg(call),
                           res |-> [err |-> TRUE, trip |-> NULL]]
               /\ UNCHANGED calls
          ELSE /\ \E t \in found : calls' = [calls EXCEPT ![c] = [call EXCEPT !.trip = t.id]]
               /\ UNCHANGED last
    /\ UNCHANGED <<users, trips, trip_crew, items, artifacts, nextTrip, nextItem,
                   nextArt, listener, feed, client, history, ctx, hub>>

\* UpdateTripMetadata, second statement: UPDATE trip ... WHERE id = $3 RETURNING *,
\* with a nil argument for a field the tool got as ""; no row, no result
UpdateTripMetadataUpdate(c) ==
    /\ calls[c].pc = "metadata"
    /\ LET call == calls[c]
           hit == {t \in trips : t.id = call.trip}
           bName == IF call.boatName # Empty THEN call.boatName ELSE NULL
           cName == IF call.captainName # Empty THEN call.captainName ELSE NULL
           set == {UpdateTripMetadataSet(t, bName, cName) : t \in hit}
       IN /\ FeedRoom(Cardinality(hit))
          /\ trips' = (trips \ hit) \cup set
          /\ feed' = Notify(feed,
                IF hit = {} THEN <<>> ELSE <<NotifyChanges("trip", "UPDATE", call.trip)>>)
          /\ last' = [op |-> "UpdateMetadata", caller |-> c, arg |-> MetaArg(call),
                      res |-> IF hit = {} THEN [err |-> TRUE, trip |-> NULL]
                              ELSE [err |-> FALSE, trip |-> CHOOSE t \in set : TRUE]]
    /\ calls' = [calls EXCEPT ![c] = Idle]
    /\ UNCHANGED <<users, trip_crew, items, artifacts, nextTrip, nextItem, nextArt,
                   listener, client, history, ctx, hub>>

\* the events of an UPDATE of the rows hit: one for each row, in any order
UpdateEvents(hit) ==
    LET n == Cardinality(hit)
        orders == {o \in [1..n -> hit] : \A i, j \in 1..n : o[i] = o[j] => i = j}
    IN {[i \in 1..n |-> NotifyChanges("trip", "UPDATE", o[i].id)] : o \in orders}

\* UpdateTripStatus: UPDATE trip SET status = $1 WHERE id = $2 OR adk_session_id = $2
UpdateTripStatus(x, status) ==
    /\ LET hit == TripsMatching(x)
       IN /\ FeedRoom(Cardinality(hit))
          /\ trips' = (trips \ hit) \cup {[t EXCEPT !.status = status] : t \in hit}
          /\ \E evs \in UpdateEvents(hit) : feed' = Notify(feed, evs)
          /\ last' = [op |-> "UpdateTripStatus", caller |-> "c1",
                      arg |-> [id |-> x, status |-> status],
                      res |-> [err |-> hit = {}]]
    /\ UNCHANGED <<users, trip_crew, items, artifacts, nextTrip, nextItem, nextArt,
                   calls, listener, client, history, ctx, hub>>

\* UpdateTripType: UPDATE trip SET trip_type = $1 WHERE id = $2 OR adk_session_id = $2
UpdateTripType(x, tripType) ==
    /\ LET hit == TripsMatching(x)
       IN /\ FeedRoom(Cardinality(hit))
          /\ trips' = (trips \ hit) \cup {[t EXCEPT !.trip_type = tripType] : t \in hit}
          /\ \E evs \in UpdateEvents(hit) : feed' = Notify(feed, evs)
          /\ last' = [op |-> "UpdateTripType", caller |-> "c1",
                      arg |-> [id |-> x, trip_type |-> tripType],
                      res |-> [err |-> hit = {}]]
    /\ UNCHANGED <<users, trip_crew, items, artifacts, nextTrip, nextItem, nextArt,
                   calls, listener, client, history, ctx, hub>>

-----------------------------------------------------------------------------
(* The change-capture listener and a client of the trip *)

\* A variant of the loop that does not look at the context
ListenerSelectBlind ==
    /\ listener = "Disconnected"
    /\ listener' = "Connecting"
    /\ UNCHANGED <<users, trips, trip_crew, items, artifacts, nextTrip, nextItem,
                   nextArt, calls, ctx, feed, client, history, last, hub>>

\* ListenToDB, the top of the loop: return when the context is done, call
\* listenLoop otherwise
ListenerSelect ==
    /\ listener = "Disconnected"
    /\ listener' = IF ctx = "Cancelled" THEN "Stopped" ELSE "Connecting"
    /\ UNCHANGED <<users, trips, trip_crew, items, artifacts, nextTrip, nextItem,
                   nextArt, calls, ctx, feed, client, history, last, hub>>

\* listenLoop: pgx.Connect succeeds, which it cannot once the context is done
ListenerConnect ==
    /\ listener = "Connecting"
    /\ ctx = "Live"
    /\ listener' = "Connected"
    /\ UNCHANGED <<users, trips, trip_crew, items, artifacts, nextTrip, nextItem,
                   nextArt, calls, ctx, feed, client, history, last, hub>>

\* listenLoop: LISTEN db_events succeeds; from now on the connection queues the
\* notifications
ListenerListen ==
    /\ listener = "Connected"
    /\ ctx = "Live"
    /\ listener' = "Listening"
    /\ feed' = <<>>
    /\ UNCHANGED <<users, trips, trip_crew, items, artifacts, nextTrip, nextItem,
                   nextArt, calls, ctx, client, history, last, hub>>

\* A variant of the failure that goes back to the top of the loop at once
ListenerFailNoDelay ==
    /\ listener \in {"Connecting", "Connected", "Listening"}
    /\ listener' = "Disconnected"
    /\ feed' = <<>>
    /\ UNCHANGED <<users, trips, trip_crew, items, artifacts, nextTrip, nextItem,
                   nextArt, calls, ctx, client, history, last, hub>>

\* listenLoop returns an error: pgx.Connect, LISTEN or WaitForNotification
\* failed, for a fault of the database or because the context is done.  The
\* connection is closed and what was queued on it is gone; ListenToDB logs the
\* error and sleeps
ListenerFail ==
    /\ listener \in {"Connecting", "Connected", "Listening"}
    /\ listener' = "Backoff"
    /\ feed' = <<>>
    /\ UNCHANGED <<users, trips, trip_crew, items, artifacts, nextTrip, nextItem,
                   nextArt, calls, ctx, client, history, last, hub>>

\* ListenToDB: time.Sleep(5 * time.Second) is over, back to the top of the loop
ListenerBackoff ==
    /\ listener = "Backoff"
    /\ listener' = "Disconnected"
    /\ UNCHANGED <<users, trips, trip_crew, items, artifacts, nextTrip, nextItem,
                   nextArt, calls, ctx, feed, client, history, last, hub>>

\* The context of the listener is cancelled: the server shuts down
Cancel ==
    /\ ctx = "Live"
    /\ ctx' = "Cancelled"
    /\ last' = [op |-> "cancel", caller |-> "main", arg |-> [at |-> listener],
                res |-> [err |-> FALSE]]
    /\ UNCHANGED <<users, trips, trip_crew, items, artifacts, nextTrip, nextItem,
                   nextArt, calls, listener, feed, client, history, hub>>

\* The trip the client has open
ClientTrip == TripKey(1)

\* The channel of a trip: "trip:" + trip id
TripPrefix == <<"t", "r", "i", "p", ":">>
Channel(tripID) == TripPrefix \o tripID

\* strings.TrimPrefix
TrimPrefix(s, p) == IF HasPrefix(s, p) THEN SubSeq(s, Len(p) + 1, Len(s)) ELSE s

\* The connections to the realtime node: that of the client of the trip, and
\* that of somebody else
PageConn == "client"
ConnIds == {PageConn, "peer"}

Connected(k) == \E conn \in hub.conns : conn.client = k

\* A variant that prefixes every guest name
CredentialsPrefixAlways(userID, guestName, userName) ==
    IF userID = Empty /\ guestName = Empty THEN [user |-> Empty, name |-> NULL]
    ELSE IF userID = Empty
    THEN [user |-> GuestPrefix \o guestName, name |-> guestName]
    ELSE [user |-> userID, name |-> IF userName # NULL THEN userName ELSE userID]

\* HandleConnect: the credentials of a connection.  userName is what GetUser
\* gave for the user id: the name, or NULL when the user has none or the lookup
\* failed.  An anonymous connection has an empty user id and no info.
Credentials(userID, guestName, userName) ==
    IF userID = Empty /\ guestName = Empty THEN [user |-> Empty, name |-> NULL]
    ELSE IF userID = Empty
    THEN LET cleanName == TrimPrefix(guestName, GuestPrefix)
         IN [user |-> GuestPrefix \o cleanName, name |-> cleanName]
    ELSE [user |-> userID, name |-> IF userName # NULL THEN userName ELSE userID]

\* HandleConnect, for the connection k with the user id and the guest name of
\* its context; GetUser may fail
HandleConnect(k, userID, guestName) ==
    /\ ~Connected(k)
    /\ \E userName \in {GetUserName(userID), NULL} :
         LET cred == Credentials(userID, guestName, userName)
         IN /\ hub' = [hub EXCEPT !.conns = @ \cup
                          {[client |-> k, user |-> cred.user, name |-> cred.name]}]
            /\ last' = [op |-> "HandleConnect", caller |-> k,
                        arg |-> [user_id |-> userID, guest_name |-> guestName,
                                 found |-> userName],
                        res |-> [err |-> FALSE, cred |-> cred]]
    /\ UNCHANGED <<users, trips, trip_crew, items, artifacts, nextTrip, nextItem,
                   nextArt, calls, listener, ctx, feed, client, history>>

\* node.Presence: the connections present in the channel, with their credentials
Presence(channel) ==
    {conn \in hub.conns : [channel |-> channel, client |-> conn.client] \in hub.presence}

\* A variant of the reply that refuses the subscription when the presence cannot
\* be fetched
SubscribeReplyStrict(err, fetched, snapshot) ==
    IF err # "none" THEN [err |-> err, data |-> {}]
    ELSE IF fetched THEN [err |-> "none", data |-> snapshot]
    ELSE [err |-> "presence unavailable", data |-> {}]

\* OnSubscribe: the reply.  An allowed subscription carries the presence fetched,
\* or the empty map when the fetch failed
SubscribeReply(err, fetched, snapshot) ==
    IF err # "none" THEN [err |-> err, data |-> {}]
    ELSE [err |-> "none", data |-> IF fetched THEN snapshot ELSE {}]

\* OnSubscribe of the connection k: a channel that does not start with "trip:" is
\* refused; the rest of the channel is looked up with GetTrip (WHERE id = $1 OR
\* adk_session_id = $1) and the subscription is allowed when that finds a trip.
\* The reply carries the presence of the channel; the subscriber then joins it.
OnSubscribe(k, channel) ==
    /\ Connected(k)
    /\ LET tripID == TrimPrefix(channel, TripPrefix)
           err == IF ~HasPrefix(channel, TripPrefix) THEN "invalid channel format"
                  ELSE IF TripsMatching(tripID) = {} THEN "permission denied"
                  ELSE "none"
       IN \E fetched \in {f \in BOOLEAN : err # "none" => f} :
            LET reply == SubscribeReply(err, fetched, Presence(channel))
            IN /\ last' = [op |-> "Subscribe", caller |-> k,
                           arg |-> [channel |-> channel, fetched |-> fetched],
                           res |-> reply]
               /\ client' = [client EXCEPT !.channels =
                                IF reply.err = "none" /\ k = PageConn
                                THEN @ \cup {channel} ELSE @]
               /\ hub' = [hub EXCEPT !.presence =
                                IF reply.err = "none"
                                THEN @ \cup {[channel |-> channel, client |-> k]}
                                ELSE @]
    /\ UNCHANGED <<users, trips, trip_crew, items, artifacts, nextTrip, nextItem,
                   nextArt, calls, listener, ctx, feed, history>>

\* A variant of the wait that hands over the newest notification first
ReceiveNewest(queue) ==
    [event |-> queue[Len(queue)], rest |-> SubSeq(queue, 1, Len(queue) - 1)]

\* listenLoop: WaitForNotification hands over the notifications of the
\* connection one at a time, in the order they were sent
Receive(queue) == [event |-> Head(queue), rest |-> Tail(queue)]

\* A variant that publishes every event, with or without a trip id
PublicationAll(event) ==
    {[channel |-> Channel(event.trip_id), payload |-> event]}

\* listenLoop: the calls of Publish for a notification.  An event whose trip id is
\* empty is skipped; any other is published once on the channel of its trip,
\* with the payload as it came
Publication(event) ==
    IF event.trip_id = NULL THEN {}
    ELSE {[channel |-> Channel(event.trip_id), payload |-> event]}

\* A notification sent by another session of the database (NOTIFY db_events)
\* with a payload that is not JSON
RawPayload == [text |-> <<"{">>]

NotifyForeign ==
    /\ FeedRoom(1)
    /\ feed' = Notify(feed, <<RawPayload>>)
    /\ UNCHANGED <<users, trips, trip_crew, items, artifacts, nextTrip, nextItem,
                   nextArt, calls, listener, ctx, client, history, last, hub>>

\* json.Unmarshal of a payload into a DBEvent: the payloads of the trigger are
\* the events it built; a text that is not JSON gives an error
Unmarshal(payload) ==
    IF "text" \in DOMAIN payload
    THEN [err |-> TRUE, event |-> Event("", "", NULL)]
    ELSE [err |-> FALSE, event |-> payload]

\* whether the call before was a notification that failed to parse or to publish
AfterFailure == last.op = "Publish" /\ (last.res.err \/ last.res.skipped)

\* A variant of the loop that returns the error of a notification it cannot
\* parse or publish
ListenerDeliverReturn ==
    /\ listener = "Listening"
    /\ feed # <<>>
    /\ LET r == Receive(feed)
           parsed == Unmarshal(r.event)
           pubs == IF parsed.err THEN {} ELSE Publication(parsed.event)
       IN \E ok \in {o \in BOOLEAN : pubs = {} => o} :
               /\ feed' = IF parsed.err \/ ~ok THEN <<>> ELSE r.rest
               /\ listener' = IF parsed.err \/ ~ok THEN "Backoff" ELSE listener
               /\ client' = [client EXCEPT !.pending =
                                \/ @
                                \/ /\ ok
                                   /\ \E p \in pubs : p.channel = Channel(ClientTrip)]
               /\ last' = [op |-> "Publish", caller |-> "listener",
                           arg |-> r.event,
                           res |-> [err |-> ~ok, skipped |-> parsed.err,
                                    after_failure |-> AfterFailure,
                                    published |-> pubs,
                                    received |-> IF ok
                                                 THEN {p \in pubs : p.channel \in client.channels}
                                                 ELSE {}]]
    /\ UNCHANGED <<users, trips, trip_crew, items, artifacts, nextTrip, nextItem,
                   nextArt, calls, history, ctx, hub>>

\* listenLoop: one notification.  A payload that does not parse is logged and
\* skipped, and so is an event without a trip id; the others are published to
\* the trip's channel, which may fail (logged only).  The loop then waits for
\* the next notification.  A publication reaches the subscribers of its channel
\* and makes the client of the trip schedule pollState.
ListenerDeliver ==
    /\ listener = "Listening"
    /\ feed # <<>>
    /\ LET r == Receive(feed)
           parsed == Unmarshal(r.event)
           pubs == IF parsed.err THEN {} ELSE Publication(parsed.event)
       IN \E ok \in {o \in BOOLEAN : pubs = {} => o} :
               /\ feed' = r.rest
               /\ listener' = listener
               /\ client' = [client EXCEPT !.pending =
                                \/ @
                                \/ /\ ok
                                   /\ \E p \in pubs : p.channel = Channel(ClientTrip)]
               /\ last' = [op |-> "Publish", caller |-> "listener",
                           arg |-> r.event,
                           res |-> [err |-> ~ok, skipped |-> parsed.err,
                                    after_failure |-> AfterFailure,
                                    published |-> pubs,
                                    received |-> IF ok
                                                 THEN {p \in pubs : p.channel \in client.channels}
                                                 ELSE {}]]
    /\ UNCHANGED <<users, trips, trip_crew, items, artifacts, nextTrip, nextItem,
                   nextArt, calls, history, ctx, hub>>

\* A variant of Map.set that adds the entry and keeps what the key had
MapSetAppend(map, key, value) == map \cup {[key |-> key, value |-> value]}

\* Map.set: the entry of the key is replaced
MapSet(map, key, value) ==
    {e \in map : e.key # key} \cup {[key |-> key, value |-> value]}

\* Map.delete
MapDelete(map, key) == {e \in map : e.key # key}

\* updatePresence: the name shown for a client info: the name of its info when
\* it has one, and the user id without a leading "guest_" otherwise
PresenceName(info) ==
    IF info.name # NULL /\ info.name # Empty THEN info.name
    ELSE IF HasPrefix(info.user, GuestPrefix)
    THEN SubSeq(info.user, Len(GuestPrefix) + 1, Len(info.user))
    ELSE info.user

\* updatePresence, 'join' and each value of 'state': an info with a user id sets
\* the entry of that user id
PresenceAdd(map, info) ==
    IF info.user # Empty THEN MapSet(map, info.user, PresenceName(info)) ELSE map

\* updatePresence('state'): the values of the data, one after the other
RECURSIVE PresenceState(_, _)
PresenceState(map, infos) ==
    IF infos = <<>> THEN map
    ELSE PresenceState(PresenceAdd(map, Head(infos)), Tail(infos))

\* ui.updatePresence(type, data) on the client; data is the list of the infos of
\* a 'state' and the one info of a 'join' or a 'leave'
UpdatePresence(type, data) ==
    /\ client' = [client EXCEPT !.activeUsers =
          IF type = "state" THEN PresenceState({}, data)
          ELSE IF type = "join" THEN PresenceAdd(@, data[1])
          ELSE IF data[1].user # Empty THEN MapDelete(@, data[1].user)
          ELSE @]
    /\ last' = [op |-> "updatePresence", caller |-> PageConn,
                arg |-> [type |-> type, data |-> data], res |-> [err |-> FALSE]]
    /\ UNCHANGED <<users, trips, trip_crew, items, artifacts, nextTrip, nextItem,
                   nextArt, calls, listener, ctx, feed, hub, history>>

\* The delays of schedulePollState in ticks of 100 ms: 300 ms after a
\* notification, 500 ms after an edit of the client
DelayNotified == 3
DelayEdited == 5

\* A variant that sets the new timeout and leaves the old one running
SchedulePollStateNoClear(delay) ==
    /\ \E id \in 1..MaxTimers :
         /\ \A t \in client.timers : t.id # id
         /\ client' = [client EXCEPT
                !.timers = @ \cup {[id |-> id, left |-> delay]},
                !.pollTimeout = id, !.pending = TRUE, !.dirty = TRUE,
                !.stamp = 1 - @]
    /\ last' = [op |-> "schedulePollState", caller |-> PageConn,
                arg |-> [delay |-> delay], res |-> [err |-> FALSE]]
    /\ UNCHANGED <<users, trips, trip_crew, items, artifacts, nextTrip, nextItem,
                   nextArt, calls, listener, ctx, feed, hub, history>>

\* schedulePollState(delay), called for a publication on the client's channel
\* and after an edit of the client: clearTimeout(pollTimeout), then setTimeout
SchedulePollState(delay) ==
    /\ LET kept == {t \in client.timers : t.id # client.pollTimeout}
       IN \E id \in 1..MaxTimers :
            /\ \A t \in kept : t.id # id
            /\ client' = [client EXCEPT
                   !.timers = kept \cup {[id |-> id, left |-> delay]},
                   !.pollTimeout = id, !.pending = TRUE, !.dirty = TRUE,
                   !.stamp = 1 - @]
    /\ last' = [op |-> "schedulePollState", caller |-> PageConn,
                arg |-> [delay |-> delay], res |-> [err |-> FALSE]]
    /\ UNCHANGED <<users, trips, trip_crew, items, artifacts, nextTrip, nextItem,
                   nextArt, calls, listener, ctx, feed, hub, history>>

\* 100 ms pass: no timeout is due, and those running have one tick less to go
Tick ==
    /\ client.timers # {}
    /\ \A t \in client.timers : t.left > 0
    /\ client' = [client EXCEPT !.timers = {[t EXCEPT !.left = @ - 1] : t \in @}]
    /\ UNCHANGED <<users, trips, trip_crew, items, artifacts, nextTrip, nextItem,
                   nextArt, calls, listener, ctx, feed, hub, history, last>>

\* The callback of a timeout that is due runs: pollState starts
TimerFire ==
    /\ client.polls < MaxPolls
    /\ \E t \in client.timers :
         /\ t.left = 0
         /\ client' = [client EXCEPT !.timers = @ \ {t},
                                     !.pending = (client.timers \ {t}) # {},
                                     !.dirty = FALSE,
                                     !.polls = @ + 1]
         /\ last' = [op |-> "pollState", caller |-> PageConn,
                     arg |-> [timer |-> t.id], res |-> [err |-> FALSE]]
    /\ UNCHANGED <<users, trips, trip_crew, items, artifacts, nextTrip, nextItem,
                   nextArt, calls, listener, ctx, feed, hub, history>>

\* pollState is async: a call that started returns, whatever came meanwhile
PollReturn ==
    /\ client.polls > 0
    /\ client' = [client EXCEPT !.polls = @ - 1]
    /\ UNCHANGED <<users, trips, trip_crew, items, artifacts, nextTrip, nextItem,
                   nextArt, calls, listener, ctx, feed, hub, history, last>>

\* GetTripReport: the items of the trip, each with the name of the user who
\* completed it (LEFT JOIN users) and with its photos
GetTripReport(tripID) ==
    {[id |-> r.id, trip_id |-> r.trip_id, name |-> r.name,
      is_checked |-> r.is_checked, location_text |-> r.location_text,
      completed_by_user_id |-> r.completed_by_user_id,
      completed_by_name |-> r.completed_by_name,
      assigned_to_user_id |-> r.assigned_to_user_id,
      assigned_to_name |-> r.assigned_to_name,
      completed_by_user_name |-> GetUserName(r.completed_by_user_id),
      photos |-> {a.id : a \in {x \in artifacts :
                        x.trip_id = r.trip_id /\ x.checklist_item_id = r.id}}] :
        r \in {x \in items : x.trip_id = tripID}}

\* pollState: the client fetches the unified state at start-up and after a
\* publication.  TripsHandler.GetTrip answers 404 without the trip, and with the
\* trip's items otherwise.
PollState ==
    /\ client' = [client EXCEPT !.pending = FALSE]
    /\ IF TripsMatching(ClientTrip) = {}
       THEN last' = [op |-> "GetTrip", caller |-> "client",
                     arg |-> [id |-> ClientTrip],
                     res |-> [err |-> TRUE, items |-> {}]]
       ELSE \E t \in TripsMatching(ClientTrip) :
               last' = [op |-> "GetTrip", caller |-> "client",
                        arg |-> [id |-> ClientTrip],
                        res |-> [err |-> FALSE, items |-> GetTripReport(t.id)]]
    /\ UNCHANGED <<users, trips, trip_crew, items, artifacts, nextTrip, nextItem,
                   nextArt, calls, listener, feed, history, ctx, hub>>

\* The keys of the state a client builds: the name of an item and the name with
\* a suffix
BoatNameKey == <<"b", "o", "a", "t", "_", "n", "a", "m", "e">>
LocationSuffix == <<"_", "l", "o", "c", "a", "t", "i", "o", "n">>
PhotosSuffix == <<"_", "p", "h", "o", "t", "o", "s">>
AssignedToNameSuffix == <<"_", "a", "s", "s", "i", "g", "n", "e", "d", "_", "t", "o", "_", "n", "a", "m", "e">>
AssignedToUserIdSuffix == <<"_", "a", "s", "s", "i", "g", "n", "e", "d", "_", "t", "o", "_", "u", "s", "e", "r", "_", "i", "d">>

\* JavaScript truthiness of a nullable text
Truthy(v) == v # NULL /\ v # Empty

\* The values of the state map: a boolean, a text or a list of photos
BoolValue(b) == [bool |-> b]
TextValue(t) == [text |-> t]
ListValue(l) == [list |-> l]

\* { ...base, ...over }: the entries of over, and those of base under other keys
Spread(base, over) == over \cup {e \in base : \A o \in over : o.key # e.key}

\* pollState, the body of items.forEach: the keys of one row
ItemState(map, item) ==
    LET m1 == MapSet(map, item.name, BoolValue(item.is_checked))
        m2 == IF Truthy(item.location_text)
              THEN MapSet(MapSet(m1, item.name, TextValue(item.location_text)),
                          item.name \o LocationSuffix, TextValue(item.location_text))
              ELSE m1
        m3 == IF item.photos # {}
              THEN MapSet(m2, item.name \o PhotosSuffix, ListValue(item.photos))
              ELSE m2
        m4 == IF Truthy(item.assigned_to_name)
              THEN MapSet(m3, item.name \o AssignedToNameSuffix,
                          TextValue(item.assigned_to_name))
              ELSE m3
    IN IF Truthy(item.assigned_to_user_id)
       THEN MapSet(m4, item.name \o AssignedToUserIdSuffix,
                   TextValue(item.assigned_to_user_id))
       ELSE m4

RECURSIVE ItemsState(_, _)
ItemsState(map, rows) ==
    IF rows = {} THEN map
    ELSE LET item == CHOOSE r \in rows : TRUE
         IN ItemsState(ItemState(map, item), rows \ {item})

\* pollState: the state built from a unified snapshot: the boat name, over it
\* the assistant-session state, over both the keys of the rows
CombinedState(unified) ==
    LET boat == IF Truthy(unified.trip.boat_name)
                THEN {[key |-> BoatNameKey, value |-> TextValue(unified.trip.boat_name)]}
                ELSE {}
    IN ItemsState(Spread(boat, unified.agent_state), unified.items)

\* SQLStore.GetTrip: one of the trips whose id or session id is the argument
\* (LIMIT 1), read into a models.Trip.  The SELECT names the columns id,
\* adk_session_id, user_id, boat_name, captain_name, departure_time, status and
\* created_at: trip_type is not among them and keeps the zero value of a string
GetTrip(x) ==
    {[id |-> t.id, adk_session_id |-> t.adk_session_id, user_id |-> t.user_id,
      boat_name |-> t.boat_name, captain_name |-> t.captain_name,
      status |-> t.status, trip_type |-> ""] : t \in TripsMatching(x)}

\* TripsHandler.GetTrip: 404 when the trip cannot be read; else the trip, its
\* items, or no item when they cannot be read, and the state of the assistant
\* session when it can be read (here {}: none)
UnifiedTrip(tripID, reportFailed, agentState) ==
    IF GetTrip(tripID) = {} THEN {[status |-> 404]}
    ELSE {[status |-> 200, trip |-> t,
           items |-> IF reportFailed THEN {} ELSE GetTripReport(t.id),
           agent_state |-> agentState] : t \in GetTrip(tripID)}

\* The states of the assistant session that the handler may find
AgentStates ==
    {{},
     {[key |-> BoatNameKey, value |-> TextValue(Westpoint)]},
     {[key |-> Oil, value |-> BoolValue(TRUE)]},
     {[key |-> Oil \o AssignedToNameSuffix, value |-> TextValue(Zed)],
      [key |-> Oil \o AssignedToUserIdSuffix, value |-> TextValue(U1)]}}

\* pollState against TripsHandler.GetTrip: the client asks for the unified
\* state of its trip and builds its state from the answer; without an answer of
\* status 200 it builds nothing
PollStateUnified ==
    /\ \E reportFailed \in BOOLEAN, agentState \in AgentStates :
         \E u \in UnifiedTrip(ClientTrip, reportFailed, agentState) :
            last' = [op |-> "getTrip", caller |-> PageConn,
                     arg |-> [id |-> ClientTrip, report_failed |-> reportFailed,
                              found |-> TripsMatching(ClientTrip) # {},
                              agent_state |-> agentState,
                              rows |-> {r \in items : r.trip_id = ClientTrip}],
                     res |-> [err |-> u.status # 200, unified |-> u,
                              state |-> IF u.status = 200 THEN CombinedState(u)
                                        ELSE {}]]
    /\ client' = [client EXCEPT !.pending = FALSE]
    /\ UNCHANGED <<users, trips, trip_crew, items, artifacts, nextTrip, nextItem,
                   nextArt, calls, listener, feed, history, ctx, hub>>

\* SQLStore.CreateArtifact: INSERT INTO artifact with trip_id NULLIF($1, ''); the
\* insert fails (foreign key) for a trip id that is not empty and has no trip
CreateArtifact(tripID) ==
    /\ nextArt < MaxArtifacts
    /\ LET tid == IF tripID = Empty THEN NULL ELSE tripID
           ok == tid = NULL \/ TripExists(tid)
       IN /\ artifacts' = IF ok
                          THEN artifacts \cup {[id |-> ArtifactKey(nextArt + 1),
                                                trip_id |-> tid,
                                                checklist_item_id |-> NULL]}
                          ELSE artifacts
          /\ nextArt' = IF ok THEN nextArt + 1 ELSE nextArt
          /\ last' = [op |-> "CreateArtifact", caller |-> "none",
                      arg |-> [trip_id |-> tripID],
                      res |-> [err |-> ~ok,
                               id |-> IF ok THEN ArtifactKey(nextArt + 1) ELSE NULL]]
    /\ UNCHANGED <<users, trips, trip_crew, items, nextTrip, nextItem, calls,
                   listener, feed, client, history, ctx, hub>>

\* SQLStore.AddItemPhoto called with the id of an artifact that exists
AddItemPhotoStart(c, tripID, itemName, artifactID) ==
    /\ calls[c] = Idle
    /\ \E a \in artifacts : a.id = artifactID
    /\ calls' = [calls EXCEPT ![c] =
          [pc |-> "photo", trip |-> tripID, name |-> itemName,
           artifact |-> artifactID, item |-> NULL]]
    /\ UNCHANGED <<users, trips, trip_crew, items, artifacts, nextTrip, nextItem,
                   nextArt, listener, feed, client, history, last, ctx, hub>>

\* ORDER BY ci.category, ci.name: every row of the model has the category
\* 'General', so the rows come in the order of their names
RECURSIVE OrderByName(_)
OrderByName(rows) ==
    IF rows = {} THEN <<>>
    ELSE LET first == CHOOSE r \in rows :
                         \A o \in rows \ {r} : ~TextLess(o.name, r.name)
         IN <<first>> \o OrderByName(rows \ {first})

\* SQLStore.GetTripReport: the lists it may return.  The sub-select takes one of
\* the trips whose id or session id is the argument (LIMIT 1); without such a
\* trip no row matches and the list is empty.
StoreGetTripReport(x) ==
    IF TripsMatching(x) = {} THEN {<<>>}
    ELSE {OrderByName(GetTripReport(t.id)) : t \in TripsMatching(x)}

\* A call of SQLStore.GetTripReport
GetTripReportCall(x) ==
    /\ \E report \in StoreGetTripReport(x) :
         last' = [op |-> "GetTripReport", caller |-> "none",
                  arg |-> [id |-> x, rows |-> {r \in items : r.trip_id = x},
                           artifacts |-> artifacts],
                  res |-> [err |-> FALSE, items |-> report]]
    /\ UNCHANGED <<users, trips, trip_crew, items, artifacts, nextTrip, nextItem,
                   nextArt, calls, listener, feed, client, history, ctx, hub>>

\* The values a state map holds under a key: one or none
ValuesAt(map, key) == {e.value : e \in {x \in map : x.key = key}}

\* pollState up to the answer of api.getTrip: the request of the client is
\* served, the handler reads the trip and its items (the reads succeed, no
\* assistant session), and the answer is on its way
PollStateFetch ==
    /\ client.reads < MaxReads
    /\ Cardinality(client.inflight) < MaxPolls
    /\ \E u \in UnifiedTrip(ClientTrip, FALSE, {}) :
         client' = [client EXCEPT !.reads = @ + 1,
                       !.inflight = @ \cup {[n |-> client.reads + 1, unified |-> u]}]
    /\ UNCHANGED <<users, trips, trip_crew, items, artifacts, nextTrip, nextItem,
                   nextArt, calls, listener, feed, history, last, ctx, hub>>

\* pollState from the answer of api.getTrip on: an answer arrives, any of those
\* on their way; getTrip throws unless the status is 200, else the state built
\* from the snapshot is shown (ui.updateState)
PollStateRender ==
    /\ \E f \in client.inflight :
         /\ client' = [client EXCEPT
                !.inflight = @ \ {f},
                !.shown = IF f.unified.status = 200
                          THEN CombinedState(f.unified) ELSE @,
                !.rendered = IF f.unified.status = 200 THEN f.n ELSE @]
         /\ last' = [op |-> "updateState", caller |-> PageConn,
                     arg |-> [n |-> f.n, before |-> client.rendered],
                     res |-> [err |-> f.unified.status # 200]]
    /\ UNCHANGED <<users, trips, trip_crew, items, artifacts, nextTrip, nextItem,
                   nextArt, calls, listener, feed, history, ctx, hub>>

\* handleAssignmentChange up to the answer of the PUT: the checked flag is read
\* from the checkbox shown, the value of a checkbox item and the completed-by
\* name are not sent, and TripsHandler.UpdateItem writes for the caller's user
\* id.  schedulePollState(500) follows the answer.
HandleAssignmentChange(itemId, uid, userId, userName) ==
    UpdateItem(ClientTrip, itemId, ValuesAt(client.shown, itemId) = {BoolValue(TRUE)},
               Empty, uid, Empty, userId, userName)

\* The connections of the tabs of other users, and the info of a connection as
\* the hub pushes it with a join or a leave
TabConns == {"tab1", "tab2"}
ConnInfos(conns) == {[user |-> conn.user, name |-> conn.name] : conn \in conns}

RECURSIVE InfoList(_)
InfoList(infos) ==
    IF infos = {} THEN <<>>
    ELSE LET i == CHOOSE x \in infos : TRUE IN <<i>> \o InfoList(infos \ {i})

\* The page subscribes to the channel of its trip (OnSubscribe, the presence
\* fetched) and, on 'subscribed', sets its presence map from the data of the
\* reply
PageSubscribe(channel) ==
    /\ Connected(PageConn)
    /\ channel \notin client.channels
    /\ TripsMatching(TrimPrefix(channel, TripPrefix)) # {}
    /\ LET reply == SubscribeReply("none", TRUE, Presence(channel))
       IN /\ client' = [client EXCEPT
                 !.channels = @ \cup {channel},
                 !.activeUsers = PresenceState({}, InfoList(ConnInfos(reply.data)))]
          /\ last' = [op |-> "Subscribe", caller |-> PageConn,
                      arg |-> [channel |-> channel, fetched |-> TRUE],
                      res |-> reply]
    /\ hub' = [hub EXCEPT !.presence = @ \cup {[channel |-> channel, client |-> PageConn]}]
    /\ UNCHANGED <<users, trips, trip_crew, items, artifacts, nextTrip, nextItem,
                   nextArt, calls, listener, ctx, feed, history>>

\* The connection k of a tab subscribes to the channel; the hub pushes a join
\* with the info of k (EmitJoinLeave, PushJoinLeave), and the page, if it is
\* subscribed, handles it: updatePresence('join', info)
TabSubscribe(k, channel) ==
    /\ Connected(k)
    /\ [channel |-> channel, client |-> k] \notin hub.presence
    /\ TripsMatching(TrimPrefix(channel, TripPrefix)) # {}
    /\ hub' = [hub EXCEPT !.presence = @ \cup {[channel |-> channel, client |-> k]}]
    /\ \E conn \in {x \in hub.conns : x.client = k} :
         LET info == [user |-> conn.user, name |-> conn.name]
         IN /\ client' = [client EXCEPT !.activeUsers =
                            IF channel \in client.channels
                            THEN PresenceAdd(@, info) ELSE @]
            /\ last' = [op |-> "join", caller |-> k,
                        arg |-> [channel |-> channel, info |-> info],
                        res |-> [err |-> FALSE]]
    /\ UNCHANGED <<users, trips, trip_crew, items, artifacts, nextTrip, nextItem,
                   nextArt, calls, listener, ctx, feed, history>>

\* The connection k of a tab unsubscribes or closes; the hub pushes a leave with
\* the info of k, and the page, if it is subscribed, handles it:
\* updatePresence('leave', info)
TabLeave(k, channel) ==
    /\ [channel |-> channel, client |-> k] \in hub.presence
    /\ hub' = [hub EXCEPT !.presence = @ \ {[channel |-> channel, client |-> k]}]
    /\ \E conn \in {x \in hub.conns : x.client = k} :
         LET info == [user |-> conn.user, name |-> conn.name]
         IN /\ client' = [client EXCEPT !.activeUsers =
                            IF channel \in client.channels /\ info.user # Empty
                            THEN MapDelete(@, info.user) ELSE @]
            /\ last' = [op |-> "leave", caller |-> k,
                        arg |-> [channel |-> channel, info |-> info],
                        res |-> [err |-> FALSE]]
    /\ UNCHANGED <<users, trips, trip_crew, items, artifacts, nextTrip, nextItem,
                   nextArt, calls, listener, ctx, feed, history>>

-----------------------------------------------------------------------------
(* The store without the realtime listener: trips are created, joined and
   deleted; items are written by the direct endpoint and by photo uploads. *)

Sessions == {S1}
ItemNames == {Oil}
Locations == {Empty, Westpoint, LockerA}
\* who acts: the user id of the request and the display name the client sends
Actors == {<<NULL, Empty>>, <<NULL, Bob>>, <<U1, Ann>>}
\* the assignment a direct edit carries: user id and name, both optional
Assignments == {<<NULL, NULL>>, <<NULL, Bob>>, <<U1, Ann>>}
TripIds == {TripKey(n) : n \in 1..MaxTrips}

Init ==
    /\ users = {[id |-> U1, name |-> Ann]}
    /\ trips = {}
    /\ trip_crew = {}
    /\ items = {}
    /\ artifacts = {}
    /\ nextTrip = 0
    /\ nextItem = 0
    /\ nextArt = 0
    /\ calls = [c \in Callers |-> Idle]
    /\ listener = "Disconnected"
    /\ ctx = "Live"
    /\ feed = <<>>
    /\ client = [pending |-> FALSE, channels |-> {}, activeUsers |-> {},
                 timers |-> {}, pollTimeout |-> 0, dirty |-> FALSE, stamp |-> 0,
                 polls |-> 0, reads |-> 0, inflight |-> {}, shown |-> {},
                 rendered |-> 0]
    /\ hub = [conns |-> {}, presence |-> {}]
    /\ history = <<>>
    /\ last = NoCall

\* The direct edits of Spec: every combination of the arguments for a trip that
\* exists; an edit for a trip that does not exist fails whatever it carries.
Next ==
    \/ \E sid \in Sessions : GetOrCreateTripSelect("c1", sid, Empty, Ann)
    \/ GetOrCreateTripInsert("c1")
    \/ CreateTripAddCrew("c1")
    \/ \E x \in TripIds : DeleteTrip(x)
    \/ \E t \in TripIds, n \in ItemNames, chk \in BOOLEAN, loc \in Locations,
          who \in Actors, to \in Assignments :
            /\ TripExists(t)
            /\ UpdateItem(t, n, chk, loc, who[1], who[2], to[1], to[2])
    \/ \E t \in TripIds, n \in ItemNames :
            /\ ~TripExists(t)
            /\ UpdateItem(t, n, TRUE, Westpoint, U1, Ann, U1, Ann)

Spec == Init /\ [][Next]_vars

-----------------------------------------------------------------------------
(* The store with photo uploads and trip deletion: edits by one registered
   user race with uploads for the same item. *)

NextUpload ==
    \/ \E sid \in Sessions : GetOrCreateTripSelect("c1", sid, Empty, Ann)
    \/ GetOrCreateTripInsert("c1")
    \/ CreateTripAddCrew("c1")
    \/ \E x \in TripIds : DeleteTrip(x)
    \/ \E t \in TripIds, n \in ItemNames, chk \in BOOLEAN, loc \in Locations :
            /\ TripExists(t)
            /\ UpdateItem(t, n, chk, loc, U1, Ann, NULL, NULL)
    \/ \E t \in TripIds, n \in ItemNames :
            /\ ~TripExists(t)
            /\ UpdateItem(t, n, TRUE, Westpoint, U1, Ann, NULL, NULL)
    \/ \E t \in TripIds, n \in ItemNames : UploadItemPhotoCreate("c2", t, n)
    \/ AddItemPhotoUpsert("c2")
    \/ AddItemPhotoLink("c2")

SpecUpload == Init /\ [][NextUpload]_vars

-----------------------------------------------------------------------------
(* Trip creation under concurrency: two requests, one of a guest and one of a
   registered user, run CreateTrip for the same session while trips may be
   deleted. *)

\* who creates: the user id of the request ("" for a guest) and the captain name
Creators == {<<Empty, Ann>>, <<U1, Empty>>}

NextTrips ==
    \/ \E c \in Callers, sid \in Sessions, who \in Creators :
            GetOrCreateTripSelect(c, sid, who[1], who[2])
    \/ \E c \in Callers : GetOrCreateTripClaim(c)
    \/ \E c \in Callers : GetOrCreateTripInsert(c)
    \/ \E c \in Callers : CreateTripAddCrew(c)
    \/ \E x \in Sessions : DeleteTrip(x)

SpecTrips == Init /\ [][NextTrips]_vars

-----------------------------------------------------------------------------
(* Crew resolution over the crews the program can build: guests Ann and Anna
   and the registered user create or join the trip of a session, items are
   assigned by direct edits, and names are resolved. *)

Joiners == {<<Empty, Ann>>, <<Empty, Anna>>, <<U1, Empty>>}
Queries == {AnnLower, An, Anna, Zed, Underscore}

NextCrew ==
    \/ \E sid \in Sessions, who \in Joiners :
            GetOrCreateTripSelect("c1", sid, who[1], who[2])
    \/ GetOrCreateTripClaim("c1")
    \/ GetOrCreateTripInsert("c1")
    \/ CreateTripAddCrew("c1")
    \/ \E t \in TripIds, n \in ItemNames, chk \in BOOLEAN,
          to \in {<<NULL, NULL>>, <<NULL, Bob>>} :
            /\ TripExists(t)
            /\ UpdateItem(t, n, chk, Empty, NULL, Bob, to[1], to[2])
    \/ \E x \in Sessions \cup TripIds, q \in Queries : FindCrewMember(x, q)

SpecCrew == Init /\ [][NextCrew]_vars

-----------------------------------------------------------------------------
(* The tool next to the direct endpoint: guests and the registered user join
   the trip, the agent applies batches on behalf of the registered user or of
   the guest Bob, and items are edited directly. *)

GuestBob == GuestPrefix \o Bob
\* the calls of the tool: who calls, and the batch
ToolCalls ==
    {<<U1, <<Update(Oil, TRUE, Empty, Zed)>>>>,
     <<U1, <<Update(Oil, TRUE, Empty, AnnLower)>>>>,
     <<GuestBob, <<Update(Oil, FALSE, Empty, Empty)>>>>,
     <<GuestBob, <<Update(Oil, TRUE, Westpoint, Zed),
                   Update(Marina, FALSE, Empty, Bob)>>>>}

NextTool ==
    \/ \E sid \in Sessions, who \in {<<Empty, Anna>>, <<U1, Empty>>} :
            GetOrCreateTripSelect("c1", sid, who[1], who[2])
    \/ GetOrCreateTripClaim("c1")
    \/ GetOrCreateTripInsert("c1")
    \/ CreateTripAddCrew("c1")
    \/ \E x \in Sessions : DeleteTrip(x)
    \/ \E sid \in Sessions, call \in ToolCalls :
            UpdateItemsStart("c2", sid, call[1], call[2])
    \/ ToolResolveTrip("c2")
    \/ ToolAssign("c2")
    \/ ToolWrite("c2")
    \/ UpdateItemsReturn("c2")

SpecTool == Init /\ [][NextTool]_vars

-----------------------------------------------------------------------------
(* Batches: the tool runs batches of none, one and two updates for the session
   while the trip of the session is created and deleted. *)

BatchCalls ==
    {<<U1, <<>>>>,
     <<U1, <<Update(Oil, TRUE, Empty, Empty)>>>>,
     <<U1, <<Update(Oil, FALSE, Empty, An)>>>>,
     <<GuestBob, <<Update(Oil, TRUE, Westpoint, Zed),
                   Update(Marina, FALSE, Empty, Empty)>>>>}

NextBatch ==
    \/ \E sid \in Sessions : GetOrCreateTripSelect("c1", sid, Empty, Anna)
    \/ GetOrCreateTripInsert("c1")
    \/ CreateTripAddCrew("c1")
    \/ \E x \in Sessions : DeleteTrip(x)
    \/ \E sid \in Sessions, call \in BatchCalls :
            UpdateItemsStart("c2", sid, call[1], call[2])
    \/ ToolResolveTrip("c2")
    \/ ToolAssign("c2")
    \/ ToolWrite("c2")
    \/ UpdateItemsReturn("c2")

SpecBatch == Init /\ [][NextBatch]_vars

-----------------------------------------------------------------------------
(* Trip details: the tool sets the boat and the captain of the session's trip
   while trips are created and deleted, their status and type change and an
   item is edited. *)

Pearl == <<"P", "e", "a", "r", "l">>
\* boat name and captain name of a call, "" for one the agent leaves out
MetaCalls == {<<Pearl, Empty>>, <<Empty, Bob>>, <<Empty, Empty>>, <<Westpoint, Anna>>}

NextMeta ==
    \/ \E sid \in Sessions : GetOrCreateTripSelect("c1", sid, Empty, Anna)
    \/ GetOrCreateTripInsert("c1")
    \/ CreateTripAddCrew("c1")
    \/ \E x \in Sessions : DeleteTrip(x)
    \/ \E t \in TripIds : UpdateItem(t, Oil, TRUE, Empty, NULL, Bob, NULL, NULL)
    \/ \E sid \in Sessions, m \in MetaCalls : UpdateMetadataSelect("c2", sid, m[1], m[2])
    \/ UpdateTripMetadataUpdate("c2")
    \/ \E x \in Sessions \cup TripIds : UpdateTripStatus(x, "Ready")
    \/ \E x \in Sessions \cup TripIds : UpdateTripType(x, "Returning")

SpecMeta == Init /\ [][NextMeta]_vars

-----------------------------------------------------------------------------
(* The hub: a client subscribes to channels while trips are created and
   deleted and an item is edited, and the listener publishes the changes. *)

\* the channels a client asks for: those of the trips, that of the session id, and
\* two that are not of the form "trip:..."
HubChannels ==
    {Channel(t) : t \in TripIds} \cup {Channel(S1), TripKey(1), Empty}

NextHub ==
    \/ \E sid \in Sessions : GetOrCreateTripSelect("c1", sid, Empty, Anna)
    \/ GetOrCreateTripInsert("c1")
    \/ CreateTripAddCrew("c1")
    \/ \E x \in TripIds : DeleteTrip(x)
    \/ \E t \in TripIds : UpdateItem(t, Oil, TRUE, Empty, NULL, Bob, NULL, NULL)
    \/ HandleConnect(PageConn, Empty, Empty)
    \/ \E ch \in HubChannels : OnSubscribe(PageConn, ch)
    \/ ListenerSelect
    \/ ListenerConnect
    \/ ListenerListen
    \/ ListenerFail
    \/ ListenerBackoff
    \/ ListenerDeliver

SpecHub == Init /\ [][NextHub]_vars

-----------------------------------------------------------------------------
(* notify_changes: the payload of the event of one change, as a function of the
   table, the operation and the row.  A row is given with the length of its
   JSON text. *)

\* IF LENGTH(payload_text) > 7500
Threshold == 7500

\* NEW in a trigger fired by a DELETE: every column is null, and its JSON text
\* is null
NullRow == [id |-> NULL, trip_id |-> NULL, size |-> 4]

\* v_trip_id: NEW.id for the table trip, NEW.trip_id otherwise
VTripId(table, new) == IF table = "trip" THEN new.id ELSE new.trip_id

\* the length of a text value as JSON: quoted, or null
JsonLen(text) == IF text = NULL THEN 4 ELSE Len(text) + 2

\* LENGTH(payload_text) of {"table" : "..", "action" : "..", "data" : .., "trip_id" : ".."}
PayloadLength(table, action, new) ==
    Len(<<"{", "\"", "t", "a", "b", "l", "e", "\"", " ", ":", " ">>)
    + (Len(table) + 2)
    + Len(<<",", " ", "\"", "a", "c", "t", "i", "o", "n", "\"", " ", ":", " ">>)
    + (Len(action) + 2)
    + Len(<<",", " ", "\"", "d", "a", "t", "a", "\"", " ", ":", " ">>)
    + new.size
    + Len(<<",", " ", "\"", "t", "r", "i", "p", "_", "i", "d", "\"", " ", ":", " ">>)
    + JsonLen(VTripId(table, new))
    + Len(<<"}">>)

\* notify_changes: the payload handed to pg_notify
Payload(table, action, new) ==
    IF PayloadLength(table, action, new) > Threshold
    THEN [table |-> table, action |-> action, trip_id |-> VTripId(table, new),
          truncated |-> TRUE]
    ELSE [table |-> table, action |-> action, data |-> new,
          trip_id |-> VTripId(table, new)]

\* The trigger fires for one row of a change: NEW is the row for an INSERT and an
\* UPDATE and null for a DELETE
TriggerFires(table, action, row) ==
    /\ last' = [op |-> "notify_changes", caller |-> "db",
                arg |-> [table |-> table, action |-> action, row |-> row],
                res |-> Payload(table, action,
                                IF action = "DELETE" THEN NullRow ELSE row)]
    /\ UNCHANGED <<users, trips, trip_crew, items, artifacts, nextTrip, nextItem,
                   nextArt, calls, listener, feed, client, history, ctx, hub>>

\* the lengths of the rows: a short one, and those around the threshold
RowSizes == {200} \cup ((Threshold - 80)..(Threshold - 65))

\* the rows of a table
RowsOf(table) ==
    IF table = "trip"
    THEN {[id |-> t, size |-> n] : t \in TripIds, n \in RowSizes}
    ELSE {[id |-> ItemKey(1), trip_id |-> t, size |-> n] : t \in TripIds, n \in RowSizes}

NextNotify ==
    \E table \in {"trip", "checklist_item"}, action \in {"INSERT", "UPDATE", "DELETE"} :
        \E row \in RowsOf(table) : TriggerFires(table, action, row)

SpecNotify == Init /\ [][NextNotify]_vars

-----------------------------------------------------------------------------
(* The life of the listener: it connects, fails, sleeps and connects again while
   a trip is created and an item is edited, until the server cancels its
   context. *)

NextListener ==
    \/ \E sid \in Sessions : GetOrCreateTripSelect("c1", sid, Empty, Anna)
    \/ GetOrCreateTripInsert("c1")
    \/ CreateTripAddCrew("c1")
    \/ \E t \in TripIds : UpdateItem(t, Oil, TRUE, Empty, NULL, Bob, NULL, NULL)
    \/ ListenerSelect
    \/ ListenerConnect
    \/ ListenerListen
    \/ ListenerFail
    \/ ListenerBackoff
    \/ ListenerDeliver
    \/ Cancel

\* The goroutine of ListenToDB keeps running: the select and the sleep come to
\* an end, and a call that takes the context returns once the context is done
ListenerFairness ==
    /\ WF_vars(ListenerSelect)
    /\ WF_vars(ListenerBackoff)
    /\ WF_vars(ctx = "Cancelled" /\ ListenerFail)

SpecListener == Init /\ [][NextListener]_vars /\ ListenerFairness

-----------------------------------------------------------------------------
(* Presence on the node: two connections connect as anonymous, as a guest or as
   a user, and subscribe to the channel of a trip. *)

\* the user id and the guest name in the context of a connection
ConnectContexts ==
    {<<Empty, Empty>>, <<Empty, Bob>>, <<Empty, GuestBob>>, <<U1, Empty>>,
     <<U1, Bob>>, <<Zed, Empty>>}

NextJoin ==
    \/ \E sid \in Sessions : GetOrCreateTripSelect("c1", sid, Empty, Anna)
    \/ GetOrCreateTripInsert("c1")
    \/ CreateTripAddCrew("c1")
    \/ \E k \in ConnIds, who \in ConnectContexts : HandleConnect(k, who[1], who[2])
    \/ \E k \in ConnIds, ch \in {Channel(TripKey(1)), Channel(TripKey(2))} : OnSubscribe(k, ch)

SpecJoin == Init /\ [][NextJoin]_vars

-----------------------------------------------------------------------------
(* The presence map of a client: any 'state', 'join' and 'leave' events, with
   the infos of anonymous connections, guests and users, a connection twice
   and an identity under two names included. *)

ClientInfos ==
    {[user |-> u, name |-> n] : u \in {Empty, U1, GuestBob}, n \in {NULL, Ann, Bob}}

\* the data of a 'state' event: the infos of up to MaxPresent connections
StateData == UNION {[1..n -> ClientInfos] : n \in 0..MaxPresent}

NextPresence ==
    \/ \E data \in StateData : UpdatePresence("state", data)
    \/ \E info \in ClientInfos : UpdatePresence("join", <<info>>)
    \/ \E info \in ClientInfos : UpdatePresence("leave", <<info>>)

SpecPresence == Init /\ [][NextPresence]_vars

-----------------------------------------------------------------------------
(* The unified state: trips are created and deleted, the item of the client's
   trip is checked, located and assigned, and the client polls. *)

NextUnified ==
    \/ \E sid \in Sessions : GetOrCreateTripSelect("c1", sid, Empty, Anna)
    \/ GetOrCreateTripInsert("c1")
    \/ CreateTripAddCrew("c1")
    \/ \E x \in Sessions : DeleteTrip(x)
    \/ UpdateItem(ClientTrip, Oil, TRUE, Empty, NULL, Bob, NULL, NULL)
    \/ UpdateItem(ClientTrip, Oil, FALSE, Westpoint, NULL, Bob, NULL, NULL)
    \/ UpdateItem(ClientTrip, Oil, FALSE, Empty, NULL, Bob, U1, Anna)
    \/ PollStateUnified

SpecUnified == Init /\ [][NextUnified]_vars

-----------------------------------------------------------------------------
(* The report of a trip: artifacts are created with and without a trip id and
   linked to the items of the client's trip, items are edited, the report is
   read. *)

ReportNames == {Oil, Marina}

NextReport ==
    \/ \E sid \in Sessions : GetOrCreateTripSelect("c1", sid, Empty, Anna)
    \/ GetOrCreateTripInsert("c1")
    \/ CreateTripAddCrew("c1")
    \/ \E t \in {Empty, ClientTrip} : CreateArtifact(t)
    \/ \E n \in ReportNames, a \in {ArtifactKey(k) : k \in 1..MaxArtifacts} :
            AddItemPhotoStart("c2", ClientTrip, n, a)
    \/ AddItemPhotoUpsert("c2")
    \/ AddItemPhotoLink("c2")
    \/ \E n \in ReportNames : UpdateItem(ClientTrip, n, TRUE, Empty, U1, Ann, NULL, NULL)
    \/ GetTripReportCall(ClientTrip)

SpecReport == Init /\ [][NextReport]_vars

-----------------------------------------------------------------------------
(* A client and the store: the trip of the client is created, another client
   checks and unchecks its item, the client re-fetches at any time, its
   answers arrive in any order, and it assigns the item. *)

NextClient ==
    \/ \E sid \in Sessions : GetOrCreateTripSelect("c1", sid, Empty, Anna)
    \/ GetOrCreateTripInsert("c1")
    \/ CreateTripAddCrew("c1")
    \/ \E chk \in BOOLEAN : UpdateItem(ClientTrip, Oil, chk, Empty, U1, Ann, NULL, NULL)
    \/ PollStateFetch
    \/ PollStateRender
    \/ HandleAssignmentChange(Oil, NULL, GuestPrefix \o Zed, Zed)

SpecClient == Init /\ [][NextClient]_vars

-----------------------------------------------------------------------------
(* The presence a page sees: the trip is created, the page and the tabs of
   other users, two of which may belong to one user, connect, subscribe and
   leave. *)

NextTabs ==
    \/ \E sid \in Sessions : GetOrCreateTripSelect("c1", sid, Empty, Anna)
    \/ GetOrCreateTripInsert("c1")
    \/ CreateTripAddCrew("c1")
    \/ HandleConnect(PageConn, Empty, Anna)
    \/ \E k \in TabConns, who \in {<<U1, Empty>>, <<Empty, Bob>>} :
            HandleConnect(k, who[1], who[2])
    \/ PageSubscribe(Channel(ClientTrip))
    \/ \E k \in TabConns : TabSubscribe(k, Channel(ClientTrip))
    \/ \E k \in TabConns : TabLeave(k, Channel(ClientTrip))

SpecTabs == Init /\ [][NextTabs]_vars

-----------------------------------------------------------------------------
(* Trips addressed by id: trips are created for the session ids clients send,
   one of which is the id of the first trip, and the first trip is addressed
   by its id. *)

NextAlias ==
    \/ \E sid \in {S1, ClientTrip} : GetOrCreateTripSelect("c1", sid, Empty, Anna)
    \/ GetOrCreateTripInsert("c1")
    \/ CreateTripAddCrew("c1")
    \/ UpdateItem(ClientTrip, Oil, TRUE, Empty, NULL, Bob, NULL, NULL)
    \/ UpdateTripStatus(ClientTrip, "Ready")
    \/ UpdateTripType(ClientTrip, "Returning")
    \/ DeleteTrip(ClientTrip)
    \/ PollStateUnified

SpecAlias == Init /\ [][NextAlias]_vars

-----------------------------------------------------------------------------
(* Joining a trip under concurrency: two requests, of two registered users and
   of a guest, run CreateTrip for one session while the status of its trip is
   changed. *)

InitOwner ==
    /\ users = {[id |-> U1, name |-> Ann], [id |-> U2, name |-> Zed]}
    /\ trips = {}
    /\ trip_crew = {}
    /\ items = {}
    /\ artifacts = {}
    /\ nextTrip = 0
    /\ nextItem = 0
    /\ nextArt = 0
    /\ calls = [c \in Callers |-> Idle]
    /\ listener = "Disconnected"
    /\ ctx = "Live"
    /\ feed = <<>>
    /\ client = [pending |-> FALSE, channels |-> {}, activeUsers |-> {},
                 timers |-> {}, pollTimeout |-> 0, dirty |-> FALSE, stamp |-> 0,
                 polls |-> 0, reads |-> 0, inflight |-> {}, shown |-> {},
                 rendered |-> 0]
    /\ hub = [conns |-> {}, presence |-> {}]
    /\ history = <<>>
    /\ last = NoCall

\* who joins: the user id of the request ("" for a guest) and the captain name
Owners == {<<Empty, Anna>>, <<U1, Ann>>, <<U2, Zed>>}

NextOwner ==
    \/ \E c \in Callers, who \in Owners :
            GetOrCreateTripSelect(c, S1, who[1], who[2])
    \/ \E c \in Callers : GetOrCreateTripClaim(c)
    \/ \E c \in Callers : GetOrCreateTripInsert(c)
    \/ \E c \in Callers : CreateTripAddCrew(c)
    \/ UpdateTripStatus(S1, "Ready")

SpecOwner == InitOwner /\ [][NextOwner]_vars

-----------------------------------------------------------------------------
(* The listen loop under faults: changes of a trip are notified, other sessions
   send payloads that are not JSON, a publish may fail, and the connection of
   the listener may be lost. *)

NextLoop ==
    \/ \E sid \in Sessions : GetOrCreateTripSelect("c1", sid, Empty, Anna)
    \/ GetOrCreateTripInsert("c1")
    \/ CreateTripAddCrew("c1")
    \/ \E chk \in BOOLEAN : UpdateItem(ClientTrip, Oil, chk, Empty, NULL, Bob, NULL, NULL)
    \/ NotifyForeign
    \/ ListenerSelect
    \/ ListenerConnect
    \/ ListenerListen
    \/ ListenerFail
    \/ ListenerBackoff
    \/ ListenerDeliver

SpecLoop == Init /\ [][NextLoop]_vars

-----------------------------------------------------------------------------
(* The debounced re-fetch of a client: publications and edits of the client
   schedule it at any time, as often as they like. *)

NextDebounce ==
    \/ SchedulePollState(DelayNotified)
    \/ SchedulePollState(DelayEdited)
    \/ Tick
    \/ TimerFire
    \/ PollReturn

\* Time passes, and the callback of a timeout that is due runs
DebounceFairness == WF_vars(Tick) /\ WF_vars(TimerFire) /\ WF_vars(PollReturn)

SpecDebounce == Init /\ [][NextDebounce]_vars /\ DebounceFairness

-----------------------------------------------------------------------------
(* Synchronisation: direct edits and batches of the tool write the same item
   while the listener connects, fails and delivers, and the client fetches.
   The writes of every item are logged in commit order. *)

InitSync ==
    /\ users = {[id |-> U1, name |-> Ann]}
    /\ trips = {}
    /\ trip_crew = {}
    /\ items = {}
    /\ artifacts = {}
    /\ nextTrip = 0
    /\ nextItem = 0
    /\ nextArt = 0
    /\ calls = [c \in Callers |-> Idle]
    /\ listener = "Disconnected"
    /\ ctx = "Live"
    /\ feed = <<>>
    /\ client = [pending |-> FALSE, channels |-> {}, activeUsers |-> {},
                 timers |-> {}, pollTimeout |-> 0, dirty |-> FALSE, stamp |-> 0,
                 polls |-> 0, reads |-> 0, inflight |-> {}, shown |-> {},
                 rendered |-> 0]
    /\ hub = [conns |-> {}, presence |-> {}]
    /\ history = [k \in {ItemKeyOf(t, n) : t \in TripIds, n \in ItemNames} |-> <<>>]
    /\ last = NoCall

SyncCalls ==
    {<<U1, <<Update(Oil, TRUE, Empty, Zed)>>>>}

\* One guest creates the trip of the session; the direct edits are a
\* checkbox-only edit, a location-only edit and an assignment by the guest Bob.
NextSync ==
    \/ \E sid \in Sessions :
            /\ TripsOfSession(sid) = {}
            /\ GetOrCreateTripSelect("c1", sid, Empty, Ann)
    \/ GetOrCreateTripInsert("c1")
    \/ CreateTripAddCrew("c1")
    \/ \E t \in TripIds, n \in ItemNames,
          e \in {<<TRUE, Empty, NULL>>, <<FALSE, Westpoint, NULL>>,
                 <<FALSE, Empty, Bob>>} :
            /\ TripExists(t)
            /\ UpdateItem(t, n, e[1], e[2], NULL, Bob, NULL, e[3])
    \/ \E sid \in Sessions, call \in SyncCalls :
            UpdateItemsStart("c2", sid, call[1], call[2])
    \/ ToolResolveTrip("c2")
    \/ ToolAssign("c2")
    \/ ToolWrite("c2")
    \/ UpdateItemsReturn("c2")
    \/ ListenerSelect
    \/ ListenerConnect
    \/ ListenerListen
    \/ ListenerFail
    \/ ListenerBackoff
    \/ ListenerDeliver
    \/ PollState

SpecSync == InitSync /\ [][NextSync]_vars

-----------------------------------------------------------------------------
(* Properties of the checklist store *)

HasItem(rows, tripID, itemName) ==
    \E r \in rows : r.trip_id = tripID /\ r.name = itemName

ItemAt(rows, tripID, itemName) ==
    CHOOSE r \in rows : r.trip_id = tripID /\ r.name = itemName

\* C1: under every interleaving of UpdateItem and AddItemPhoto calls the store
\* holds at most one checklist_item row per (trip id, name), and the id a call
\* returns is the id of that row.
C1_OneRowPerItem ==
    /\ \A r1, r2 \in items :
          (r1.trip_id = r2.trip_id /\ r1.name = r2.name) => r1 = r2
    /\ (last.op = "UpdateItem" /\ ~last.res.err) =>
          /\ HasItem(items, last.arg.trip_id, last.arg.name)
          /\ \A r \in items :
                (r.trip_id = last.arg.trip_id /\ r.name = last.arg.name)
                    => r.id = last.res.item.id
    /\ (last.op = "AddItemPhoto" /\ ~last.res.err) =>
          \A r \in items :
                (r.trip_id = last.arg.trip_id /\ r.name = last.arg.name)
                    => r.id = last.res.id

\* An upload that was started before the row existed has reused the row an edit
\* inserted meanwhile.
C1_Witness ==
    /\ last.op = "AddItemPhoto"
    /\ ~last.res.err
    /\ \E r \in items : r.id = last.res.id /\ r.location_text = Westpoint

\* The step is a call of the direct edit endpoint with the arguments last' records
UpdateItemStep ==
    /\ last'.op = "UpdateItem"
    /\ UpdateItem(last'.arg.trip_id, last'.arg.name, last'.arg.is_checked,
                  last'.arg.location, last'.arg.user_id, last'.arg.completed_by_name,
                  last'.arg.assigned_to_user_id, last'.arg.assigned_to_name)

\* C2: an UpdateItem whose two assignment arguments are null leaves the
\* assignment of an assigned item as it was, whatever else it carries.
C2_StickyAssignment ==
    [][(/\ UpdateItemStep
        /\ last'.arg.assigned_to_user_id = NULL
        /\ last'.arg.assigned_to_name = NULL
        /\ HasItem(items, last'.arg.trip_id, last'.arg.name)
        /\ LET old == ItemAt(items, last'.arg.trip_id, last'.arg.name)
           IN old.assigned_to_user_id # NULL \/ old.assigned_to_name # NULL)
       => LET old == ItemAt(items, last'.arg.trip_id, last'.arg.name)
              new == ItemAt(items', last'.arg.trip_id, last'.arg.name)
          IN /\ ~last'.res.err
             /\ new.id = old.id
             /\ new.assigned_to_user_id = old.assigned_to_user_id
             /\ new.assigned_to_name = old.assigned_to_name]_vars

\* A checkbox toggle by another user has kept Bob's assignment.
C2_Witness ==
    /\ last.op = "UpdateItem"
    /\ ~last.res.err
    /\ last.arg.assigned_to_user_id = NULL
    /\ last.arg.assigned_to_name = NULL
    /\ last.arg.is_checked
    /\ last.arg.user_id = U1
    /\ last.res.item.assigned_to_name = Bob
    /\ last.res.item \in items

HasLocation(r) == r.location_text # NULL /\ r.location_text # Empty

\* C3: a row's location, once non-empty, stays non-empty; an UpdateItem with an
\* empty location leaves the stored location as it was and one with a non-empty
\* location replaces it, the checkbox following the call; the upsert of
\* AddItemPhoto leaves the location of a row it finds as it was.
C3_LocationMonotone ==
    [][/\ \A r \in items : \A r2 \in items' :
            (r2.id = r.id /\ HasLocation(r)) => HasLocation(r2)
       /\ (UpdateItemStep /\ ~last'.res.err) =>
            LET tripID == last'.arg.trip_id
                itemName == last'.arg.name
                new == ItemAt(items', tripID, itemName)
            IN /\ HasItem(items', tripID, itemName)
               /\ new.is_checked = last'.arg.is_checked
               /\ new.location_text =
                    IF last'.arg.location # Empty THEN last'.arg.location
                    ELSE IF HasItem(items, tripID, itemName)
                         THEN ItemAt(items, tripID, itemName).location_text
                         ELSE Empty
       /\ (AddItemPhotoUpsert("c2") /\ calls'["c2"].pc = "link") =>
            LET tripID == calls["c2"].trip
                itemName == calls["c2"].name
                new == ItemAt(items', tripID, itemName)
            IN /\ HasItem(items', tripID, itemName)
               /\ new.is_checked
               /\ HasItem(items, tripID, itemName) =>
                    new.location_text = ItemAt(items, tripID, itemName).location_text
      ]_vars

\* Location Westpoint was recorded, then a checkbox-only edit and a photo upload
\* went through: the row is checked and still at Westpoint.
C3_Witness ==
    /\ last.op = "UpdateItem"
    /\ ~last.res.err
    /\ last.arg.location = Empty
    /\ last.arg.is_checked
    /\ last.res.item.location_text = Westpoint
    /\ last.res.item \in items
    /\ calls["c2"].pc = "link"
    /\ calls["c2"].item = last.res.item.id

\* C4: an unchecked row carries no completed-by user and no completed-by name;
\* every UpdateItem overwrites both: with the acting user and the name sent (null
\* when the name is empty) when checked, with null when unchecked.
C4_CompletedOnlyWhenChecked ==
    /\ [](\A r \in items :
            ~r.is_checked => /\ r.completed_by_user_id = NULL
                             /\ r.completed_by_name = NULL)
    /\ [][(UpdateItemStep /\ ~last'.res.err) =>
            LET new == ItemAt(items', last'.arg.trip_id, last'.arg.name)
            IN /\ new.is_checked = last'.arg.is_checked
               /\ new.completed_by_user_id =
                    IF last'.arg.is_checked THEN last'.arg.user_id ELSE NULL
               /\ new.completed_by_name =
                    IF last'.arg.is_checked /\ last'.arg.completed_by_name # Empty
                    THEN last'.arg.completed_by_name ELSE NULL]_vars

\* An item assigned to Ann was written unchecked by Bob: it carries no attribution.
C4_Witness ==
    /\ last.op = "UpdateItem"
    /\ ~last.res.err
    /\ ~last.arg.is_checked
    /\ last.arg.completed_by_name = Bob
    /\ last.res.item \in items
    /\ last.res.item.completed_by_name = NULL
    /\ last.res.item.completed_by_user_id = NULL
    /\ last.res.item.assigned_to_name = Ann

\* C5: the UpdateItem call that has just returned, made again with the same
\* arguments, inserts no row, returns the same id and leaves every column of
\* the row, and the table, as the first call left them.
C5_SameCallTwice ==
    (last.op = "UpdateItem" /\ ~last.res.err /\ last.res.item \in items) =>
        LET again == StoreUpdateItem(items, last.arg.trip_id, last.arg.name,
                        last.arg.is_checked, last.arg.location, last.arg.user_id,
                        last.arg.completed_by_name, last.arg.assigned_to_user_id,
                        last.arg.assigned_to_name)
        IN /\ ~again.err
           /\ again.used = 0
           /\ again.item.id = last.res.item.id
           /\ again.item = last.res.item
           /\ again.rows = items
           /\ Cardinality({r \in again.rows : r.trip_id = last.arg.trip_id
                                              /\ r.name = last.arg.name}) = 1

\* The call inserted the row, checked, located and assigned.
C5_Witness ==
    /\ last.op = "UpdateItem"
    /\ ~last.res.err
    /\ last.res.item \in items
    /\ last.arg.is_checked
    /\ last.arg.location = LockerA
    /\ last.arg.assigned_to_name = Bob
    /\ nextItem = 1

\* The merge policy over the writes of one item in commit order, field by field:
\* checked and completion attribution are those of the last write; the location
\* is the last non-empty one written and the assignment the last non-null one,
\* those of the first write when there is none.
LastOf(at) == IF at = {} THEN 1 ELSE CHOOSE i \in at : \A j \in at : j <= i

Folded(log) ==
    LET n == 1..Len(log)
        withLocation == {i \in n : log[i].ex.location_text \notin {NULL, Empty}}
        withUser == {i \in n : log[i].ex.assigned_to_user_id # NULL}
        withName == {i \in n : log[i].ex.assigned_to_name # NULL}
        final == log[Len(log)].ex
    IN [is_checked |-> final.is_checked,
        completed_by_user_id |-> final.completed_by_user_id,
        completed_by_name |-> final.completed_by_name,
        location_text |-> log[LastOf(withLocation)].ex.location_text,
        assigned_to_user_id |-> log[LastOf(withUser)].ex.assigned_to_user_id,
        assigned_to_name |-> log[LastOf(withName)].ex.assigned_to_name]

FieldsOf(r) ==
    [is_checked |-> r.is_checked,
     completed_by_user_id |-> r.completed_by_user_id,
     completed_by_name |-> r.completed_by_name,
     location_text |-> r.location_text,
     assigned_to_user_id |-> r.assigned_to_user_id,
     assigned_to_name |-> r.assigned_to_name]

Then(rows, a, b) ==
    LET first == StoreUpdateItem(rows, a.trip_id, a.name, a.is_checked, a.location,
                    a.user_id, a.completed_by_name, a.assigned_to_user_id,
                    a.assigned_to_name)
    IN StoreUpdateItem(first.rows, b.trip_id, b.name, b.is_checked, b.location,
                    b.user_id, b.completed_by_name, b.assigned_to_user_id,
                    b.assigned_to_name).rows

\* The calls on the item of the call that has just returned
CallsOnLastItem ==
    {[trip_id |-> last.arg.trip_id, name |-> last.arg.name, is_checked |-> chk,
      location |-> loc, user_id |-> who[1], completed_by_name |-> who[2],
      assigned_to_user_id |-> to[1], assigned_to_name |-> to[2]] :
        chk \in BOOLEAN, loc \in Locations, who \in Actors, to \in Assignments}

ExcludedOf(a) ==
    UpdateItemExcluded(a.trip_id, a.name, a.is_checked, a.location, a.user_id,
                       a.completed_by_name, a.assigned_to_user_id, a.assigned_to_name)

\* Two calls agree on what the last writer decides and do not both carry a
\* different value for a column the merge keeps
Compatible(a, b) ==
    LET ea == ExcludedOf(a)
        eb == ExcludedOf(b)
    IN /\ ea.is_checked = eb.is_checked
       /\ ea.completed_by_user_id = eb.completed_by_user_id
       /\ ea.completed_by_name = eb.completed_by_name
       /\ (a.location = Empty \/ b.location = Empty \/ a.location = b.location)
       /\ \/ a.assigned_to_user_id = NULL \/ b.assigned_to_user_id = NULL
          \/ a.assigned_to_user_id = b.assigned_to_user_id
       /\ \/ a.assigned_to_name = NULL \/ b.assigned_to_name = NULL
          \/ a.assigned_to_name = b.assigned_to_name

\* C7 as stated: any two UpdateItem calls on the same item leave the same row
\* whichever of them the database commits first.
C7_AnyTwoCommute ==
    (last.op = "UpdateItem" /\ ~last.res.err) =>
        \A b \in CallsOnLastItem :
            Then(items, last.arg, b) = Then(items, b, last.arg)

\* C7: two UpdateItem calls on the same item leave the same row in either commit
\* order when they carry the same checked flag and completion attribution and
\* at most one of them carries a location, an assignee id and an assignee name
\* (or both carry the same).
C7_CompatibleCommute ==
    (last.op = "UpdateItem" /\ ~last.res.err) =>
        \A b \in CallsOnLastItem :
            Compatible(last.arg, b) =>
                Then(items, last.arg, b) = Then(items, b, last.arg)

\* A call that sets the location and a call that assigns Bob, both unchecked:
\* either order leaves the row at Westpoint, assigned to Bob.
C7_Witness ==
    /\ last.op = "UpdateItem"
    /\ ~last.res.err
    /\ last.arg.location = Westpoint
    /\ last.arg.assigned_to_name = NULL
    /\ \E b \in CallsOnLastItem :
          /\ Compatible(last.arg, b)
          /\ b.location = Empty
          /\ b.assigned_to_name = Bob
          /\ Then(items, last.arg, b) # items
          /\ LET r == ItemAt(Then(items, b, last.arg), b.trip_id, b.name)
             IN r.location_text = Westpoint /\ r.assigned_to_name = Bob

\* C8 as stated: whatever the interleaving of GetOrCreateTrip calls with one
\* session id, at most one trip row carries that session id, and the call that
\* has just returned got the id of that row.
C8_OneTripPerSession ==
    /\ \A sid \in Sessions : Cardinality(TripsOfSession(sid)) <= 1
    /\ last.op = "GetOrCreateTrip" =>
          \A t \in TripsOfSession(last.arg.sid) : t.id = last.res.id

\* What C9 states FindCrewMember returns over the crew set names
ExactMatches(names, q) == {n \in names : n # Empty /\ Lower(n) = Lower(q)}

SubstringMatches(names, q) ==
    {n \in names : n # Empty /\ Contains(Lower(n), Lower(q))}

\* C9 as stated: FindCrewMember returns a crew name equal to the query ignoring
\* case when there is one; otherwise the first in alphabetical order of the crew
\* names that contain the query, ignoring case; otherwise no name.
C9_ResolutionAsStated ==
    (last.op = "FindCrewMember" /\ ~last.res.err) =>
        LET names == last.res.crew
            q == last.arg.query
            exact == ExactMatches(names, q)
            part == SubstringMatches(names, q)
        IN IF exact # {} THEN last.res.name \in exact
           ELSE IF part # {}
                THEN /\ last.res.name \in part
                     /\ \A m \in part \ {last.res.name} : TextLess(last.res.name, m)
                ELSE last.res.name = Empty

TrustedNames(realID) ==
    LET ofTrip == {r \in items : r.trip_id = realID}
    IN  {t.captain_name : t \in {x \in trips : x.id = realID /\ x.captain_name # NULL}}
        \cup {r.display_name :
                r \in {x \in trip_crew : x.trip_id = realID /\ x.display_name # NULL}}
        \cup {u.name : u \in {x \in users : x.name # NULL /\
                \E r \in ofTrip : x.id \in {r.assigned_to_user_id, r.completed_by_user_id}}}
        \cup {u.name : u \in {x \in users :
                x.name # NULL /\ \E t \in trips : t.id = realID /\ t.user_id = x.id}}

\* C11 as stated: the crew set resolution uses holds trusted identities only, so
\* an update of the tool that reports its assignee as matched stored the name of
\* a trusted identity (or of the calling user), and a name recorded unmatched
\* stays unmatched when it is resolved again.
C11_OnlyTrustedResolve ==
    (/\ last.op = "updateItemInternal"
     /\ ~last.res.err
     /\ last.arg.assigned_to_name # Empty
     /\ last.res.matched)
        => last.res.item.assigned_to_name \in
              TrustedNames(last.arg.trip_id) \cup {CurrentUserName(last.arg.user_id)}

-----------------------------------------------------------------------------
(* Batches of the tool *)

\* C12 as stated: an update of the tool that names an assignee and does not
\* complete the item (is_checked is false, as the tool is told to send it) stores
\* the crew name the assignee resolves to, reports it as matched, and leaves the
\* checked flag of the item as it was.
C12_AssignmentKeepsChecked ==
    [][(/\ ToolWrite("c2")
        /\ last'.arg.assigned_to_name # Empty
        /\ ~last'.arg.is_checked
        /\ last'.res.resolved # Empty
        /\ ~last'.res.err
        /\ HasItem(items, last'.arg.trip_id, last'.arg.name))
       => /\ last'.res.matched
          /\ last'.res.item.assigned_to_name = last'.res.resolved
          /\ last'.res.item.is_checked =
                ItemAt(items, last'.arg.trip_id, last'.arg.name).is_checked]_vars

\* how often the name occurs in the list
Count(list, name) == Cardinality({i \in 1..Len(list) : list[i] = name})

\* the names of the updates of a batch, in batch order
NamesOf(updates) == [i \in 1..Len(updates) |-> updates[i].item_name]

\* C13: an update of a batch is listed with a warning exactly when it was applied
\* and its assignee was not matched, and the batch returns "success" exactly when
\* every update was applied and none has a warning, "warning" exactly when every
\* update was applied and one has a warning, and "partial_success" exactly when
\* an update failed.
C13_BatchStatus ==
    [][/\ ToolWrite("c2") =>
            (calls'["c2"].warnings # calls["c2"].warnings
                <=> (/\ ~last'.res.err
                     /\ last'.arg.assigned_to_name # Empty
                     /\ ~last'.res.matched))
       /\ UpdateItemsReturn("c2") =>
            LET all == Len(last'.res.successes) = Len(last'.arg.updates)
                failed == Len(last'.res.errors) > 0
                warned == Len(last'.res.warnings) > 0
            IN /\ last'.res.status \in {"success", "warning", "partial_success"}
               /\ last'.res.status = "success" <=> (all /\ ~warned)
               /\ last'.res.status = "warning" <=> (all /\ warned)
               /\ last'.res.status = "partial_success" <=> failed
               /\ last'.res.successes = calls["c2"].successes
               /\ last'.res.errors = calls["c2"].errors
               /\ last'.res.warnings = calls["c2"].warnings]_vars

\* A batch of two came back as "partial_success" with one update applied under a
\* warning and the other failed
C13_Witness ==
    /\ last.op = "UpdateItems"
    /\ Len(last.arg.updates) = 2
    /\ last.res.status = "partial_success"
    /\ Len(last.res.errors) = 1
    /\ Len(last.res.warnings) = 1

\* C14: the updates of a batch are handled in batch order, each one once; an update
\* that fails changes no row and the loop goes on with the next update; the
\* batch returns a result and no error, and every update of the batch is listed
\* once, among the updated or among the failed.
C14_ItemsIndependent ==
    [][/\ (calls["c2"] # Idle /\ calls'["c2"] # Idle) =>
            LET old == calls["c2"]
                new == calls'["c2"]
                done == Len(new.successes) + Len(new.errors)
            IN /\ new.updates = old.updates
               /\ new.batch = SubSeq(new.updates, done + 1, Len(new.updates))
               /\ new.batch # old.batch =>
                     /\ new.batch = Tail(old.batch)
                     /\ new.pc = IF new.batch = <<>> THEN "summary" ELSE "resolve"
                     /\ last'.op = "updateItemInternal"
                     /\ last'.arg.name = Head(old.batch).item_name
                     /\ IF last'.res.err
                        THEN /\ items' = items
                             /\ new.successes = old.successes
                             /\ new.errors = Append(old.errors, last'.arg.name)
                        ELSE /\ new.successes = Append(old.successes, last'.arg.name)
                             /\ new.errors = old.errors
                             /\ \A r \in items :
                                   (r.trip_id # last'.arg.trip_id \/ r.name # last'.arg.name)
                                      => r \in items'
       /\ UpdateItemsReturn("c2") =>
            /\ ~last'.res.err
            /\ Len(last'.res.successes) + Len(last'.res.errors) = Len(last'.arg.updates)
            /\ \A i \in 1..Len(last'.arg.updates) :
                  LET name == last'.arg.updates[i].item_name
                  IN Count(last'.res.successes, name) + Count(last'.res.errors, name)
                        = Count(NamesOf(last'.arg.updates), name)]_vars

\* A batch of two came back with its first update failed and its second applied:
\* the row of the second is in the store
C14_Witness ==
    /\ last.op = "UpdateItems"
    /\ Len(last.arg.updates) = 2
    /\ last.res.errors = <<last.arg.updates[1].item_name>>
    /\ last.res.successes = <<last.arg.updates[2].item_name>>
    /\ \E r \in items : r.name = last.arg.updates[2].item_name

-----------------------------------------------------------------------------
(* Trip details *)

\* the row of the trip without its boat and captain
Rest(t) ==
    [id |-> t.id, adk_session_id |-> t.adk_session_id, user_id |-> t.user_id,
     status |-> t.status, trip_type |-> t.trip_type]

\* C15: a step of the tool's update of the trip details changes no checklist
\* row, no crew row and no trip but one trip of the session; of that trip it
\* leaves the id, the session, the owner, the status and the type as they were,
\* sets each field supplied, and keeps the value of a field not supplied.
C15_MetadataFrame ==
    [][(\/ UpdateTripMetadataUpdate("c2")
        \/ \E sid \in Sessions, m \in MetaCalls : UpdateMetadataSelect("c2", sid, m[1], m[2]))
       => /\ items' = items
          /\ trip_crew' = trip_crew
          /\ users' = users
          /\ {Rest(t) : t \in trips'} = {Rest(t) : t \in trips}
          /\ \A t \in trips : \E n \in trips' :
                /\ n.id = t.id
                /\ n # t =>
                     /\ last'.op = "UpdateMetadata"
                     /\ ~last'.res.err
                     /\ last'.res.trip = n
                     /\ t.adk_session_id = last'.arg.sid
          /\ (calls["c2"].pc = "metadata" /\ ~last'.res.err) =>
                \E t \in trips :
                    /\ t.id = last'.res.trip.id
                    /\ t.adk_session_id = last'.arg.sid
                    /\ last'.res.trip \in trips'
                    /\ last'.res.trip.boat_name =
                          IF last'.arg.boat_name = Empty THEN t.boat_name
                          ELSE last'.arg.boat_name
                    /\ last'.res.trip.captain_name =
                          IF last'.arg.captain_name = Empty THEN t.captain_name
                          ELSE last'.arg.captain_name]_vars

\* The tool set the captain alone on a trip that has a boat name, a status and a
\* type other than the defaults, and a checklist row: the boat name is kept.
C15_Witness ==
    /\ last.op = "UpdateMetadata"
    /\ ~last.res.err
    /\ last.arg.boat_name = Empty
    /\ last.arg.captain_name = Bob
    /\ last.res.trip.boat_name = Pearl
    /\ last.res.trip.captain_name = Bob
    /\ last.res.trip.status = "Ready"
    /\ last.res.trip.trip_type = "Returning"
    /\ \E r \in items : r.trip_id = last.res.trip.id

-----------------------------------------------------------------------------
(* The hub and the listener *)

\* C16 as stated: a subscription to "trip:X" is allowed only when a trip with
\* the id X is in the store at that time and is refused with permission denied
\* otherwise, and a channel that is not of the form "trip:..." is refused.
C16_SubscribeNeedsTrip ==
    [][(\E ch \in HubChannels : OnSubscribe(PageConn, ch))
       => LET ch == last'.arg.channel
              known == \E t \in trips : ch = Channel(t.id)
          IN /\ last'.res.err = "none" <=> known
             /\ (~known /\ HasPrefix(ch, TripPrefix))
                   => last'.res.err = "permission denied"
             /\ ~HasPrefix(ch, TripPrefix) => last'.res.err # "none"
             /\ client'.channels =
                   client.channels \cup (IF known THEN {ch} ELSE {})]_vars

\* C17: the listener publishes nothing for a notification whose trip id is empty
\* and publishes any other exactly once, on "trip:" + trip id, with the payload
\* as it came; what a subscriber receives was published on a channel it has
\* subscribed to and carries the trip id of that channel.
C17_PublishedToOwnChannel ==
    [][ListenerDeliver
       => LET e == last'.arg
          IN /\ last'.op = "Publish"
             /\ e.trip_id = NULL =>
                   /\ last'.res.published = {}
                   /\ last'.res.received = {}
             /\ e.trip_id # NULL =>
                   last'.res.published =
                      {[channel |-> <<"t", "r", "i", "p", ":">> \o e.trip_id, payload |-> e]}
             /\ \A p \in last'.res.received :
                   /\ p \in last'.res.published
                   /\ p.channel \in client.channels
                   /\ <<"t", "r", "i", "p", ":">> \o p.payload.trip_id = p.channel
             /\ \A p \in last'.res.published :
                   (~last'.res.err /\ p.channel \in client.channels)
                      => p \in last'.res.received
             /\ client'.channels = client.channels]_vars

\* A change of the second trip was published while the client is subscribed to
\* the channel of the first trip alone: it receives nothing
C17_Witness ==
    /\ last.op = "Publish"
    /\ ~last.res.err
    /\ last.arg.trip_id = TripKey(2)
    /\ last.res.published # {}
    /\ client.channels = {Channel(TripKey(1))}
    /\ last.res.received = {}

\* C18: the listener handles the notifications in the order the change feed
\* delivers them: each step publishes the oldest one waiting and leaves the
\* others waiting in their order, and nothing but the loss of the connection
\* removes a notification or puts one before those waiting.
C18_FeedOrder ==
    [][/\ ListenerDeliver =>
            /\ last'.arg = Head(feed)
            /\ feed' = Tail(feed)
       /\ (~ListenerDeliver /\ feed' # feed) =>
            \/ feed' = <<>>
            \/ /\ Len(feed') > Len(feed)
               /\ SubSeq(feed', 1, Len(feed)) = feed]_vars

\* A change of a trip has been published while a later change of the same trip
\* is still waiting
C18_Witness ==
    /\ last.op = "Publish"
    /\ last.res.published # {}
    /\ feed # <<>>
    /\ feed[1].trip_id = last.arg.trip_id
    /\ feed[1] # last.arg

\* C19 as stated: every notification of a change of a trip or checklist_item
\* row, a deletion included, carries a trip id, so that the listener publishes it.
C19_EveryChangeCarriesTrip ==
    \A i \in 1..Len(feed) : feed[i].trip_id # NULL

-----------------------------------------------------------------------------
(* The events of the change feed *)

\* C20 as stated: an event whose text would be longer than 7500 characters is
\* exactly {table, action, trip_id, truncated: true}, without data; the event of
\* every other change carries the full row changed in data and no truncated
\* flag.
C20_FullRowOrTruncated ==
    last.op = "notify_changes" =>
        LET p == last.res
            new == IF last.arg.action = "DELETE" THEN NullRow ELSE last.arg.row
            long == PayloadLength(last.arg.table, last.arg.action, new) > 7500
        IN /\ p.table = last.arg.table
           /\ p.action = last.arg.action
           /\ long => /\ DOMAIN p = {"table", "action", "trip_id", "truncated"}
                       /\ p.truncated
           /\ ~long => /\ DOMAIN p = {"table", "action", "data", "trip_id"}
                        /\ p.data = last.arg.row

-----------------------------------------------------------------------------
(* The life of the listener *)

\* C21: once the context is cancelled ListenToDB eventually returns, wherever it
\* is; after it has seen the cancellation at the top of its loop, or while it
\* sleeps with the context cancelled, it starts no connection attempt, and once
\* returned it stays so.
C21_ListenerStops ==
    /\ (ctx = "Cancelled") ~> (listener = "Stopped")
    /\ [][/\ (ctx = "Cancelled" /\ listener \in {"Disconnected", "Backoff", "Stopped"})
              => listener' \notin {"Connecting", "Connected", "Listening"}
          /\ listener = "Stopped" => listener' = "Stopped"]_vars

\* The context was cancelled while the listener was waiting for a notification,
\* and ListenToDB has returned
C21_Witness ==
    /\ listener = "Stopped"
    /\ last.op = "cancel"
    /\ last.arg.at = "Listening"

\* C22: the listener stops only when its context is cancelled; a failure to
\* connect, to issue LISTEN or to wait for a notification closes the connection
\* and leads to the sleep, touches neither the store nor any call or result, and
\* a connection attempt is made only from the top of the loop, which after a
\* failure is reached only through the sleep; after the sleep the listener
\* attempts to connect again unless it was cancelled.
C22_ListenerReconnects ==
    /\ [][/\ listener' = "Stopped" => ctx = "Cancelled"
          /\ ListenerFail =>
               /\ listener' = "Backoff"
               /\ <<users, trips, trip_crew, items, artifacts, calls, client, last>>' =
                     <<users, trips, trip_crew, items, artifacts, calls, client, last>>
          /\ (listener' = "Connecting" /\ listener # "Connecting")
               => (listener = "Disconnected" /\ ctx = "Live")
          /\ (listener' = "Disconnected" /\ listener # "Disconnected")
               => listener = "Backoff"
          /\ (listener \in {"Connecting", "Connected", "Listening"}
              /\ listener' \notin {"Connecting", "Connected", "Listening"})
               => listener' = "Backoff"]_vars
    /\ (listener = "Backoff") ~> (listener \in {"Connecting", "Stopped"})

\* The listener had published a change, then its wait failed: it sleeps, with
\* its context live
C22_Witness ==
    /\ listener = "Backoff"
    /\ ctx = "Live"
    /\ last.op = "Publish"

-----------------------------------------------------------------------------
(* Presence *)

\* C24: the reply to an allowed subscription carries the presence of the
\* channel as it is when the subscription is made: every connection that has
\* joined the channel is in it with its identity, it is empty when nobody has,
\* and it is empty as well when the presence cannot be fetched, in which case
\* the subscription is allowed all the same.
C24_PresenceSeed ==
    [][(\E k \in ConnIds, ch \in HubChannels : OnSubscribe(k, ch))
       => LET ch == last'.arg.channel
              joined == {conn \in hub.conns :
                            \E e \in hub.presence :
                                e.channel = ch /\ e.client = conn.client}
          IN /\ last'.res.err = "none"
                   <=> (HasPrefix(ch, TripPrefix)
                        /\ TripsMatching(TrimPrefix(ch, TripPrefix)) # {})
             /\ last'.res.err = "none" =>
                   /\ last'.arg.fetched => last'.res.data = joined
                   /\ ~last'.arg.fetched => last'.res.data = {}
                   /\ joined = {} => last'.res.data = {}
                   /\ [channel |-> ch, client |-> last'.caller] \in hub'.presence]_vars

\* The client subscribed to the channel of a trip that the guest Bob had
\* joined: the reply names him
C24_Witness ==
    /\ last.op = "Subscribe"
    /\ last.caller = PageConn
    /\ last.res.err = "none"
    /\ \E conn \in last.res.data :
          /\ conn.client # PageConn
          /\ conn.user = GuestBob
          /\ conn.name = Bob

\* C25: HandleConnect never fails.  Without user id and guest name the
\* connection is anonymous: empty user id, no info.  With a guest name alone the
\* user id is "guest_" + name and the info name is the name, and a name that
\* starts with "guest_" is the user id as it is, the info name being the rest.
\* With a user id the user id is kept and the info name is the name of the
\* user, or the user id when the user has no name or the lookup failed.
C25_ConnectClasses ==
    last.op = "HandleConnect" =>
        LET userID == last.arg.user_id
            guestName == last.arg.guest_name
            cred == last.res.cred
        IN /\ ~last.res.err
           /\ (userID = Empty /\ guestName = Empty)
                => (cred.user = Empty /\ cred.name = NULL)
           /\ (userID = Empty /\ guestName # Empty /\ ~HasPrefix(guestName, GuestPrefix))
                => (cred.user = GuestPrefix \o guestName /\ cred.name = guestName)
           /\ (userID = Empty /\ HasPrefix(guestName, GuestPrefix))
                => (cred.user = guestName /\ GuestPrefix \o cred.name = guestName)
           /\ userID # Empty
                => /\ cred.user = userID
                   /\ cred.name = IF last.arg.found # NULL THEN last.arg.found ELSE userID
                   /\ last.arg.found \in {NULL} \cup {u.name : u \in {x \in users : x.id = userID}}
           /\ \E conn \in hub.conns :
                 conn.client = last.caller /\ conn.user = cred.user /\ conn.name = cred.name

\* A connection with the guest name "guest_Bob" is the guest "guest_Bob" named Bob
C25_Witness ==
    /\ last.op = "HandleConnect"
    /\ last.arg.user_id = Empty
    /\ last.arg.guest_name = GuestBob
    /\ last.res.cred.user = GuestBob
    /\ last.res.cred.name = Bob

\* C23: whatever 'state', 'join' and 'leave' events a client has handled, its
\* presence map has at most one entry for a user id and none for the empty
\* user id; after a 'join' or a 'state' that names a user id the entry of that
\* user id is there, and after its 'leave' it is not.
C23_PresenceByIdentity ==
    /\ \A e1, e2 \in client.activeUsers : e1.key = e2.key => e1 = e2
    /\ \A e \in client.activeUsers : e.key # Empty
    /\ last.op = "updatePresence" =>
          LET named == {last.arg.data[i].user : i \in 1..Len(last.arg.data)} \ {Empty}
              keys == {e.key : e \in client.activeUsers}
          IN /\ last.arg.type = "state" => keys = named
             /\ last.arg.type = "join" => named \subseteq keys
             /\ last.arg.type = "leave" => named \cap keys = {}

\* A 'state' listed the user u1 twice, under two names: the map has one entry
C23_Witness ==
    /\ last.op = "updatePresence"
    /\ last.arg.type = "state"
    /\ Len(last.arg.data) = 2
    /\ last.arg.data[1].user = U1
    /\ last.arg.data[2].user = U1
    /\ last.arg.data[1].name = Ann
    /\ last.arg.data[2].name = Bob
    /\ client.activeUsers = {[key |-> U1, value |-> Bob]}

\* C26: at most one re-fetch timeout is pending at any time; scheduling leaves
\* exactly the new timeout, with its whole delay to go, whatever was pending; a
\* re-fetch starts only when the pending timeout is due and leaves none, so a
\* burst whose members each arrive before the timeout runs causes one re-fetch,
\* a whole delay after its last member; after a notification or an edit a
\* timeout is pending until a re-fetch starts; and every notification or edit
\* is eventually followed by a re-fetch that starts after it, or by a further
\* notification or edit.
C26_DebouncedRefetch ==
    /\ [](Cardinality(client.timers) <= 1)
    /\ [](client.dirty => client.timers # {})
    /\ [][/\ client'.stamp # client.stamp =>
               /\ last'.op = "schedulePollState"
               /\ client'.dirty
               /\ client'.timers = {[id |-> client'.pollTimeout,
                                     left |-> last'.arg.delay]}
          /\ client'.polls > client.polls =>
               /\ client.timers # {}
               /\ \A t \in client.timers : t.left = 0
               /\ client'.timers = {}
               /\ client'.polls = client.polls + 1
               /\ ~client'.dirty]_vars
    /\ \A b \in {0, 1} :
          (client.dirty /\ client.stamp = b) ~> (~client.dirty \/ client.stamp # b)

\* A burst of an even number of notifications and edits is over, and the one
\* re-fetch that followed it is in flight, no timeout pending.
C26_Witness ==
    /\ last.op = "pollState"
    /\ client.stamp = 0
    /\ client.polls = 1
    /\ client.timers = {}
    /\ ~client.dirty

\* C26 as stated: every notification or edit is eventually followed by a
\* re-fetch that starts after it.
C26_EveryEventRefetched == client.dirty ~> ~client.dirty

\* C27: in the state a client builds from a unified snapshot, every item of the
\* snapshot has under its name the value of its row (the location if it has one,
\* else the checked flag) and under its assignment keys the assigned name and
\* user id of its row, and nothing when the row is unassigned, whatever the
\* assistant-session state holds under these keys; the entries of the session
\* state under other keys are kept.
C27_RowsAuthoritative ==
    (last.op = "getTrip" /\ ~last.res.err) =>
        LET u == last.res.unified
            st == last.res.state
        IN /\ \A r \in u.items :
                /\ ValuesAt(st, r.name) =
                      {IF Truthy(r.location_text) THEN TextValue(r.location_text)
                       ELSE BoolValue(r.is_checked)}
                /\ ValuesAt(st, r.name \o AssignedToNameSuffix) =
                      IF Truthy(r.assigned_to_name)
                      THEN {TextValue(r.assigned_to_name)} ELSE {}
                /\ ValuesAt(st, r.name \o AssignedToUserIdSuffix) =
                      IF Truthy(r.assigned_to_user_id)
                      THEN {TextValue(r.assigned_to_user_id)} ELSE {}
           /\ \A e \in u.agent_state :
                (\A r \in u.items : e.key \notin {r.name, r.name \o AssignedToNameSuffix,
                                                  r.name \o AssignedToUserIdSuffix})
                    => e \in st

\* C28: a read of the unified state of an unknown trip is answered 404 and the
\* client builds nothing; a read in which the items of the trip cannot be read
\* fails, and is not answered with a snapshot.
C28_StoreErrorsPropagated ==
    last.op = "getTrip" =>
        /\ ~last.arg.found =>
              /\ last.res.unified = [status |-> 404]
              /\ last.res.state = {}
        /\ last.arg.report_failed => last.res.err

\* C29: an UpdateItem that fails, which it does for a trip id that does not
\* exist, fails with an error that is ErrNotFound.
C29_MissingTripNotFound ==
    (last.op = "UpdateItem" /\ last.res.err) => Is(last.res.error, ErrNotFound)

\* C30: in every state, whatever DeleteTrip, UpdateItem and AddItemPhoto did and
\* in whatever order their statements ran, the trip of every checklist_item row
\* and of every artifact row exists; and after a DeleteTrip that succeeded no
\* trip matches the id it was given and no checklist_item or artifact row
\* refers to it.
C30_CascadingDelete ==
    /\ \A r \in items : TripExists(r.trip_id)
    /\ \A a \in artifacts : TripExists(a.trip_id)
    /\ (last.op = "DeleteTrip" /\ ~last.res.err) =>
          /\ TripsMatching(last.arg.id) = {}
          /\ \A r \in items : r.trip_id # last.arg.id
          /\ \A a \in artifacts : a.trip_id # last.arg.id

\* A trip was deleted between the two statements of an AddItemPhoto on it: the
\* item the first statement had inserted is gone with the trip.
C30_Witness ==
    /\ last.op = "DeleteTrip"
    /\ ~last.res.err
    /\ calls["c2"].pc = "link"
    /\ calls["c2"].trip = last.arg.id
    /\ nextItem > 0
    /\ \A r \in items : r.trip_id # last.arg.id

\* C31: the list GetTripReport returns holds every checklist item of the trip
\* once, in the order of the names, and the photos of each item are the
\* artifacts whose checklist_item_id is the id of the item, whatever trip id
\* the artifact was created with.
C31_ReportComplete ==
    last.op = "GetTripReport" =>
        LET got == last.res.items
        IN /\ Len(got) = Cardinality(last.arg.rows)
           /\ \A r \in last.arg.rows : \E i \in 1..Len(got) : got[i].id = r.id
           /\ \A i \in 1..Len(got) : \A j \in 1..Len(got) :
                 i < j => TextLess(got[i].name, got[j].name)
           /\ \A i \in 1..Len(got) :
                 got[i].photos =
                    {a.id : a \in {x \in last.arg.artifacts :
                                      x.checklist_item_id = got[i].id}}

\* C32: the first statement of AddItemPhoto inserts the row of (trip, name) when
\* there is none and keeps the row and its id when there is one; no row ever
\* changes its id; after AddItemPhoto succeeded the artifact is linked to the id
\* returned, which is the id of the row of (trip, name); and the item a later
\* UpdateItem returns has the id of that row.
C32_PhotoLinksItem ==
    /\ []((last.op = "AddItemPhoto" /\ ~last.res.err) =>
            /\ \A a \in artifacts :
                  a.id = last.arg.artifact => a.checklist_item_id = last.res.id
            /\ \A r \in items :
                  (r.trip_id = last.arg.trip_id /\ r.name = last.arg.name)
                      => r.id = last.res.id)
    /\ []((last.op = "UpdateItem" /\ ~last.res.err) =>
            \A r \in items :
                (r.trip_id = last.arg.trip_id /\ r.name = last.arg.name)
                    => r.id = last.res.item.id)
    /\ [][/\ \A r \in items : \A q \in items' :
                 (r.trip_id = q.trip_id /\ r.name = q.name) => r.id = q.id
          /\ (calls["c2"].pc = "photo" /\ calls'["c2"].pc = "link") =>
                LET old == {r \in items : r.trip_id = calls["c2"].trip
                                            /\ r.name = calls["c2"].name}
                IN /\ \E r \in items' : /\ r.id = calls'["c2"].item
                                         /\ r.trip_id = calls["c2"].trip
                                         /\ r.name = calls["c2"].name
                   /\ IF old = {}
                      THEN Cardinality(items') = Cardinality(items) + 1
                      ELSE /\ Cardinality(items') = Cardinality(items)
                           /\ \A r \in old : r.id = calls'["c2"].item]_vars

\* An UpdateItem that came after a successful AddItemPhoto for the same name
\* returned the id the artifact is linked to.
C32_Witness ==
    /\ last.op = "UpdateItem"
    /\ ~last.res.err
    /\ \E a \in artifacts : /\ a.checklist_item_id = last.res.item.id
                             /\ a.trip_id = last.arg.trip_id

\* C33: when the item is checked in the store and the client, which still
\* shows it unchecked, assigns it, the item the write returns is still checked
\* and carries the new assignment.
C33_NoLostCompletion ==
    [][(/\ HandleAssignmentChange(Oil, NULL, GuestPrefix \o Zed, Zed)
        /\ ~last'.res.err
        /\ ValuesAt(client.shown, Oil) # {BoolValue(TRUE)}
        /\ HasItem(items, ClientTrip, Oil)
        /\ ItemAt(items, ClientTrip, Oil).is_checked)
       => /\ last'.res.item.is_checked
          /\ last'.res.item.assigned_to_name = Zed]_vars

\* C34: the state a client shows is never replaced by the state of an earlier
\* read: the read shown only moves forward.
C34_NewestSnapshotShown == [][client'.rendered >= client.rendered]_vars

\* C35: when a write gives an item another assigned name and the assigned user
\* id of before stays on the item, that user id is the id of the user of the
\* new name: the id of the assignee before does not stay beside the name of
\* another.
C35_AssignmentPair ==
    [][\A r \in items : \A q \in items' :
          (/\ q.id = r.id
           /\ q.assigned_to_name # r.assigned_to_name
           /\ r.assigned_to_user_id # NULL
           /\ q.assigned_to_user_id = r.assigned_to_user_id)
          => GetUserName(q.assigned_to_user_id) = q.assigned_to_name]_vars

\* C36: when a connection leaves the channel while another connection of the
\* same identity stays subscribed, the identity, which the page had in its
\* presence map, stays in it.
C36_IdentityStaysPresent ==
    [][(/\ last'.op = "leave"
        /\ hub'.presence # hub.presence
        /\ Channel(ClientTrip) \in client.channels
        /\ \E e \in client.activeUsers : e.key = last'.arg.info.user
        /\ \E conn \in hub.conns :
              /\ conn.client \in TabConns
              /\ conn.user = last'.arg.info.user
              /\ [channel |-> Channel(ClientTrip), client |-> conn.client]
                    \in hub'.presence)
       => \E e \in client'.activeUsers : e.key = last'.arg.info.user]_vars

\* C37: UpdateTripStatus, UpdateTripType and DeleteTrip called with the id of a
\* trip leave every other trip as it was, and a read of the unified state for
\* that id answers with the trip of that id.
C37_OnlyTheTripAddressed ==
    /\ [][(\/ UpdateTripStatus(ClientTrip, "Ready")
           \/ UpdateTripType(ClientTrip, "Returning")
           \/ DeleteTrip(ClientTrip))
          => \A t \in trips : t.id # ClientTrip => t \in trips']_vars
    /\ []((last.op = "getTrip" /\ ~last.res.err)
            => last.res.unified.trip.id = last.arg.id)

\* C38: a read of the unified state of a trip whose type UpdateTripType has
\* set to Returning answers with a trip of type Returning.
C38_SnapshotCarriesType ==
    [][(/\ PollStateUnified
        /\ ~last'.res.err
        /\ \E t \in trips : /\ t.id = last'.res.unified.trip.id
                             /\ t.trip_type = "Returning")
       => last'.res.unified.trip.trip_type = "Returning"]_vars

\* C39: a GetOrCreateTrip call for a session id that has a trip leaves the
\* captain name, the type and the status of every trip as they were, sets
\* nothing but an unset owner, and never replaces an owner a trip has.
C39_JoinSetsOnlyUnsetOwner ==
    [][(\E c \in Callers :
          \/ GetOrCreateTripClaim(c)
          \/ /\ TripsOfSession(S1) # {}
             /\ \E who \in Owners : GetOrCreateTripSelect(c, S1, who[1], who[2]))
       => \A t \in trips : \E q \in trips' :
             /\ q.id = t.id
             /\ q.captain_name = t.captain_name
             /\ q.trip_type = t.trip_type
             /\ q.status = t.status
             /\ t.user_id # NULL => q.user_id = t.user_id]_vars

\* C40: while the listener is listening, a notification whose payload does not
\* parse or whose publish fails is consumed alone: the listener stays
\* listening, nothing else leaves the queue of the connection, and the
\* notification handled next is the one that followed it, published on the
\* channel of its trip.
C40_FailureIsSkipped ==
    /\ [][(ListenerDeliver /\ (last'.res.err \/ last'.res.skipped))
          => /\ listener = "Listening"
             /\ listener' = "Listening"
             /\ feed' = Tail(feed)
             /\ last'.res.received = {}]_vars
    /\ [][(ListenerDeliver /\ AfterFailure)
          => /\ last'.arg = Head(feed)
             /\ last'.res.after_failure
             /\ (~last'.res.skipped /\ last'.arg.trip_id # NULL)
                   => last'.res.published =
                        {[channel |-> Channel(last'.arg.trip_id),
                          payload |-> last'.arg]}]_vars

\* a notification of a trip's change is published right after one that failed
C40_Witness ==
    /\ last.op = "Publish"
    /\ last.res.after_failure
    /\ ~last.res.skipped
    /\ ~last.res.err
    /\ last.res.published # {}
    /\ listener = "Listening"

====
